---------------------------- MODULE Spec2Model ----------------------------
(***************************************************************************)
(* Attack detection and timed pirate defense of ikabot:                    *)
(*   src/ikabot/function/alertAttacks.py      the poll loop (do_it)        *)
(*   src/ikabot/function/emergencyDefense.py  configuration, the trigger   *)
(*   src/ikabot/helpers/pirateDefense.py      the planner and the executor *)
(*                                                                         *)
(* Python values are modelled as follows.  An optional value (None or v)   *)
(* is the sequence << >> or <<v>>.  A dict is a function whose DOMAIN is   *)
(* the set of keys present, so d[k] raises KeyError exactly when k is not  *)
(* in DOMAIN d and d.get(k) is None there.  A raised exception is an       *)
(* explicit outcome of the operator or action that raises it.              *)
(***************************************************************************)
EXTENDS Integers, Sequences, FiniteSets

VARIABLES
    config,          \* session_data.get("auto_pirate_defense"): << >> or <<dict>>
    defense,         \* << >> or <<the last defense call: its inputs, result, requests>>
    cur,             \* << >> or <<the last run of the loop body for a new movement>>
    pc,              \* position of do_it
    failure,         \* why the except clause of this cycle ran, "" while it has not
    serverHostile,   \* event ids hostile on the game server at this cycle's fetch
    hostile,         \* the list iterated in this cycle (hostile event ids, in order)
    idx,             \* number of movements of `hostile` already taken by the for loop
    knownAttacks,    \* do_it's knownAttacks
    currentAttacks,  \* do_it's currentAttacks
    outbox,          \* << >> or <<the last message the Notifier delivered>>
    evicted,         \* event ids the last eviction removed from knownAttacks
    watched,         \* the event id the four observers below follow
    alertedOnce,     \* its threat alert was delivered since it was last absent from the server
    alertedAgain,    \* ... and delivered once more since
    defendedOnce,    \* auto_defend_on_detection was called for it since it was last absent
    defendedAgain,   \* ... and called once more since
    alertedNow,      \* its threat alert was delivered in this cycle
    watchedGone,     \* at the last eviction it was known and absent from the server's list
    startup,         \* alertAttacks: its position, the startup event, the logout
    listener,        \* the respondToAttack thread and what its last pass did
    screen,          \* ScreenBuffer.lines and the chunks get_screen last returned
    bot,             \* TelegramBot and its poller: running flags, signals and messages sent
    shared,          \* session_data["shared"], a dict
    setup,           \* setupIkaChef: its position and what it saw before it wrote
    earlier,         \* the defense attempt made before the observed one
    output,          \* OutputControl: its mode, its flag and what on_first_message last did
    tee,             \* TeeStdout: telegram_buffer, the flush under way and what was sent
    poller,          \* TelegramPoller, its threads and the updates Telegram holds for it
    launch           \* telegram_bot.main: how far the launch of the Telegram mode got

observers == <<watched, alertedOnce, alertedAgain, defendedOnce, defendedAgain,
               alertedNow, watchedGone>>

loopVars == <<pc, failure, serverHostile, hostile, idx, knownAttacks, currentAttacks,
              outbox, evicted>>

procVars == <<startup, listener>>

pluginVars == <<screen, bot, shared, setup>>

menuVars == <<output, tee, poller, launch>>

otherVars == <<procVars, pluginVars, earlier, menuVars>>

vars == <<config, defense, cur, loopVars, observers, otherVars>>

-----------------------------------------------------------------------------
(* Python helpers *)

None == << >>

Some(v) == <<v>>

\* bool(x) of an optional integer: None and 0 are falsy
Truthy(x) == x # None /\ x[1] # 0

\* d.get(k, default)
Get(d, k, default) == IF k \in DOMAIN d THEN d[k] ELSE default

Min(a, b) == IF a <= b THEN a ELSE b

Max(a, b) == IF a >= b THEN a ELSE b

-----------------------------------------------------------------------------
(* pirateDefense.py *)

PreserveThreshold == 7000

DefaultPointsPerCrew == 10

DefaultTimePerCrew == 7

DefaultBaseTime == 156

ReasonNoFortress == "No pirate fortress found in any city"

ReasonFetchFailed == "Failed to fetch conversion data from pirate fortress"

ReasonInProgress == "Conversion already in progress, cannot start another"

ReasonNotEnoughPoints == "Not enough capture points"

ReasonTooClose == "Attack too close"

ReasonZeroCrew == "Calculated 0 crew to convert (time/points/limit constraints)"

ReasonDeadline == "Conversion would take longer than the attack leaves"

ReasonApiFailed == "API call to convert crew failed"

ReasonException == "Exception"

ReasonNotEnabled == "Auto-defense not enabled in configuration"

\* The fortress page as the regular expressions of get_conversion_data see it:
\* each scraped number is optional, progressBar is the "conversionProgressBar" marker.
\* post_raises: session.post raised while fetching the page.
get_conversion_data(page) ==
    IF page.post_raises THEN None
    ELSE Some([
        capture_points |-> IF page.capturePoints # None THEN page.capturePoints[1] ELSE 0,
        base_time_seconds |-> IF page.baseTime # None
                              THEN page.baseTime[1][1] * 60 + page.baseTime[1][2]
                              ELSE DefaultBaseTime,
        time_per_crew |-> IF page.timeValue # None THEN page.timeValue[1] ELSE DefaultTimePerCrew,
        points_per_crew |-> IF page.pointsValue # None THEN page.pointsValue[1]
                            ELSE DefaultPointsPerCrew,
        conversion_in_progress |-> page.progressBar])

\* Fault variant of calculate_max_crew_conversion: the remainder is taken instead of the quotient.
calculate_max_crew_conversion_Remainder(attack_arrival_seconds, safety_buffer_seconds, conversion_data) ==
    LET available_time == attack_arrival_seconds - safety_buffer_seconds
        base_time == conversion_data.base_time_seconds
        time_per_crew == conversion_data.time_per_crew
        time_for_crew == available_time - base_time
    IN  IF available_time < base_time THEN [raised |-> FALSE, value |-> 0]
        ELSE IF time_per_crew = 0 THEN [raised |-> TRUE, value |-> 0]
        ELSE [raised |-> FALSE, value |-> Max(0, time_for_crew % time_per_crew)]

\* Fault variant of calculate_max_crew_conversion: the safety buffer is not
\* taken off the arrival time.
calculate_max_crew_conversion_NoBuffer(attack_arrival_seconds, safety_buffer_seconds, conversion_data) ==
    LET available_time == attack_arrival_seconds
        base_time == conversion_data.base_time_seconds
        time_per_crew == conversion_data.time_per_crew
        time_for_crew == available_time - base_time
    IN  IF available_time < base_time THEN [raised |-> FALSE, value |-> 0]
        ELSE IF time_per_crew = 0 THEN [raised |-> TRUE, value |-> 0]
        ELSE [raised |-> FALSE, value |-> Max(0, time_for_crew \div time_per_crew)]

\* Returns [raised, value]: int(a / 0) raises ZeroDivisionError.
calculate_max_crew_conversion(attack_arrival_seconds, safety_buffer_seconds, conversion_data) ==
    LET available_time == attack_arrival_seconds - safety_buffer_seconds
        base_time == conversion_data.base_time_seconds
        time_per_crew == conversion_data.time_per_crew
        time_for_crew == available_time - base_time
    IN  IF available_time < base_time THEN [raised |-> FALSE, value |-> 0]
        ELSE IF time_per_crew = 0 THEN [raised |-> TRUE, value |-> 0]
        ELSE [raised |-> FALSE, value |-> Max(0, time_for_crew \div time_per_crew)]

\* Fault variant of convert_crew_for_defense: a raised request is reported as done.
convert_crew_for_defense_AlwaysTrue(env) == env.convert_raises \/ ~env.convert_raises

\* The convert request: TRUE unless session.post raised.
convert_crew_for_defense(env) == ~env.convert_raises

LookupRequest == [kind |-> "fortressLookup", crewPoints |-> 0]

FetchRequest == [kind |-> "conversionData", crewPoints |-> 0]

ConvertRequest(crew) == [kind |-> "convert", crewPoints |-> crew]

EmptyResult(attack_arrival_seconds) ==
    [success |-> FALSE, reason |-> "", crew_converted |-> 0, capture_points_spent |-> 0,
     conversion_time |-> 0, attack_arrival_time |-> attack_arrival_seconds, time_buffer |-> 0]

Failed(result, reason, requests) ==
    [result |-> [result EXCEPT !.reason = reason], requests |-> requests]

\* Fault variant of step 7: the balance bound of step 6 is left out of the minimum.
ApplySpendingLimit_IgnoringBalance(max_capture_points, points_per_crew, max_crew_by_time, max_crew_by_points) ==
    IF Truthy(max_capture_points)
    THEN Min(max_crew_by_time, max_capture_points[1] \div points_per_crew)
    ELSE max_crew_by_time

\* Step 7: the crew count after the operator's spending limit.
ApplySpendingLimit(max_capture_points, points_per_crew, max_crew_by_time, max_crew_by_points) ==
    IF Truthy(max_capture_points)
    THEN Min(Min(max_crew_by_time, max_crew_by_points), max_capture_points[1] \div points_per_crew)
    ELSE Min(max_crew_by_time, max_crew_by_points)

\* Fault variant of step 7b: the protection applies only strictly above 7000.
ApplyBonusProtection_StrictlyAbove(allow_bonus_loss, available_capture_points, points_per_crew, crew_to_convert) ==
    IF ~allow_bonus_loss /\ available_capture_points > PreserveThreshold
    THEN Min(crew_to_convert, (available_capture_points - PreserveThreshold) \div points_per_crew)
    ELSE crew_to_convert

\* Fault variant of step 7b: the protected crew count is rounded up instead of down.
ApplyBonusProtection_RoundedUp(allow_bonus_loss, available_capture_points, points_per_crew, crew_to_convert) ==
    IF ~allow_bonus_loss /\ available_capture_points >= PreserveThreshold
    THEN Min(crew_to_convert,
             (available_capture_points - PreserveThreshold + points_per_crew - 1) \div points_per_crew)
    ELSE crew_to_convert

\* Step 7b: the crew count after the 7000 points bonus protection.
ApplyBonusProtection(allow_bonus_loss, available_capture_points, points_per_crew, crew_to_convert) ==
    IF ~allow_bonus_loss /\ available_capture_points >= PreserveThreshold
    THEN Min(crew_to_convert, (available_capture_points - PreserveThreshold) \div points_per_crew)
    ELSE crew_to_convert

\* Steps 8 and 9, for a crew count that is not 0.
ConvertPlanned_SpentInCrew(env, result, cd, attack_arrival_seconds, crew_to_convert, before) ==
    LET conversion_time == cd.base_time_seconds + crew_to_convert * cd.time_per_crew
        time_buffer == attack_arrival_seconds - conversion_time
        requests == Append(before, ConvertRequest(crew_to_convert))
    IN  IF time_buffer < 0 THEN Failed(result, ReasonDeadline, before)
        ELSE IF convert_crew_for_defense(env)
        THEN [result |-> [result EXCEPT !.success = TRUE,
                                        !.crew_converted = crew_to_convert,
                                        !.capture_points_spent = crew_to_convert,
                                        !.conversion_time = conversion_time,
                                        !.time_buffer = time_buffer],
              requests |-> requests]
        ELSE Failed(result, ReasonApiFailed, requests)

ConvertPlanned(env, result, cd, attack_arrival_seconds, crew_to_convert, before) ==
    LET conversion_time == cd.base_time_seconds + crew_to_convert * cd.time_per_crew
        time_buffer == attack_arrival_seconds - conversion_time
        requests == Append(before, ConvertRequest(crew_to_convert))
    IN  IF time_buffer < 0 THEN Failed(result, ReasonDeadline, before)
        ELSE IF convert_crew_for_defense(env)
        THEN [result |-> [result EXCEPT !.success = TRUE,
                                        !.crew_converted = crew_to_convert,
                                        !.capture_points_spent = crew_to_convert * cd.points_per_crew,
                                        !.conversion_time = conversion_time,
                                        !.time_buffer = time_buffer],
              requests |-> requests]
        ELSE Failed(result, ReasonApiFailed, requests)

\* Fault variant of steps 5 to 9: the balance is one remembered from another
\* attempt (5000), not the one just fetched.
PlanAndConvert_CachedBalance(env, result, cd, attack_arrival_seconds, max_capture_points, safety_buffer_seconds, allow_bonus_loss, before) ==
    LET available_capture_points == 5000
        by_time == calculate_max_crew_conversion(attack_arrival_seconds, safety_buffer_seconds, cd)
    IN  IF by_time.raised THEN Failed(result, ReasonException, before)
        ELSE IF by_time.value = 0 THEN Failed(result, ReasonTooClose, before)
        ELSE IF cd.points_per_crew = 0 THEN Failed(result, ReasonException, before)
        ELSE LET max_crew_by_points == available_capture_points \div cd.points_per_crew
                 limited == ApplySpendingLimit(max_capture_points, cd.points_per_crew,
                                               by_time.value, max_crew_by_points)
                 crew_to_convert == ApplyBonusProtection(allow_bonus_loss, available_capture_points,
                                                         cd.points_per_crew, limited)
             IN  IF crew_to_convert = 0 THEN Failed(result, ReasonZeroCrew, before)
                 ELSE ConvertPlanned(env, result, cd, attack_arrival_seconds,
                                     crew_to_convert, before)

\* Steps 5 to 9, with the conversion data fetched.
PlanAndConvert(env, result, cd, attack_arrival_seconds, max_capture_points, safety_buffer_seconds, allow_bonus_loss, before) ==
    LET available_capture_points == cd.capture_points
        by_time == calculate_max_crew_conversion(attack_arrival_seconds, safety_buffer_seconds, cd)
    IN  IF by_time.raised THEN Failed(result, ReasonException, before)
        ELSE IF by_time.value = 0 THEN Failed(result, ReasonTooClose, before)
        ELSE IF cd.points_per_crew = 0 THEN Failed(result, ReasonException, before)
        ELSE LET max_crew_by_points == available_capture_points \div cd.points_per_crew
                 limited == ApplySpendingLimit(max_capture_points, cd.points_per_crew,
                                               by_time.value, max_crew_by_points)
                 crew_to_convert == ApplyBonusProtection(allow_bonus_loss, available_capture_points,
                                                         cd.points_per_crew, limited)
             IN  IF crew_to_convert = 0 THEN Failed(result, ReasonZeroCrew, before)
                 ELSE ConvertPlanned(env, result, cd, attack_arrival_seconds,
                                     crew_to_convert, before)

\* Fault variant of auto_defend_pirate_attack: step 3 (conversion in progress) is skipped.
auto_defend_pirate_attack_NoProgressCheck(env, attack_arrival_seconds, max_capture_points, safety_buffer_seconds, allow_bonus_loss) ==
    LET result == EmptyResult(attack_arrival_seconds)
        conversion_data == get_conversion_data(env.page)
        fetched == <<LookupRequest, FetchRequest>>
    IN  IF ~env.fortress_found THEN Failed(result, ReasonNoFortress, <<LookupRequest>>)
        ELSE IF conversion_data = None THEN Failed(result, ReasonFetchFailed, fetched)
        ELSE LET cd == conversion_data[1]
             IN  IF cd.capture_points < cd.points_per_crew
                 THEN Failed(result, ReasonNotEnoughPoints, fetched)
                 ELSE PlanAndConvert(env, result, cd, attack_arrival_seconds, max_capture_points,
                                     safety_buffer_seconds, allow_bonus_loss, fetched)

\* Fault variant of auto_defend_pirate_attack: step 4 (minimum balance) is skipped.
auto_defend_pirate_attack_NoPointsCheck(env, attack_arrival_seconds, max_capture_points, safety_buffer_seconds, allow_bonus_loss) ==
    LET result == EmptyResult(attack_arrival_seconds)
        conversion_data == get_conversion_data(env.page)
        fetched == <<LookupRequest, FetchRequest>>
    IN  IF ~env.fortress_found THEN Failed(result, ReasonNoFortress, <<LookupRequest>>)
        ELSE IF conversion_data = None THEN Failed(result, ReasonFetchFailed, fetched)
        ELSE LET cd == conversion_data[1]
             IN  IF cd.conversion_in_progress THEN Failed(result, ReasonInProgress, fetched)
                 ELSE PlanAndConvert(env, result, cd, attack_arrival_seconds, max_capture_points,
                                     safety_buffer_seconds, allow_bonus_loss, fetched)

\* env: what the game server answers during this attempt
\*   fortress_found: get_pirate_fortress_city found a fortress, page: the crew
\*   conversion screen, convert_raises: the convert request raised.
\* Returns the result dict and the requests sent to the game server, in order.
auto_defend_pirate_attack(env, attack_arrival_seconds, max_capture_points, safety_buffer_seconds, allow_bonus_loss) ==
    LET result == EmptyResult(attack_arrival_seconds)
        conversion_data == get_conversion_data(env.page)
        fetched == <<LookupRequest, FetchRequest>>
    IN  IF ~env.fortress_found THEN Failed(result, ReasonNoFortress, <<LookupRequest>>)
        ELSE IF conversion_data = None THEN Failed(result, ReasonFetchFailed, fetched)
        ELSE LET cd == conversion_data[1]
             IN  IF cd.conversion_in_progress THEN Failed(result, ReasonInProgress, fetched)
                 ELSE IF cd.capture_points < cd.points_per_crew
                 THEN Failed(result, ReasonNotEnoughPoints, fetched)
                 ELSE PlanAndConvert(env, result, cd, attack_arrival_seconds, max_capture_points,
                                     safety_buffer_seconds, allow_bonus_loss, fetched)

-----------------------------------------------------------------------------
(* emergencyDefense.py *)

DefaultSafetyBuffer == 120

\* The dict configure_auto_defense stores under "auto_pirate_defense".
\* max_points_input: << >> for the empty answer, else <<digits read with min=0>>.
configure_auto_defense(auto_defend, max_points_input, safety_buffer) ==
    IF auto_defend
    THEN [enabled |-> TRUE, max_capture_points |-> max_points_input,
          safety_buffer_seconds |-> safety_buffer]
    ELSE [enabled |-> FALSE]

\* Fault variant of auto_defend_on_detection: the enabled flag is not looked at.
auto_defend_on_detection_IgnoresEnabled(cfg, env, time_left) ==
    LET defense_config == IF cfg = None THEN << >> ELSE cfg[1]
    IN  auto_defend_pirate_attack(env, time_left,
                                  Get(defense_config, "max_capture_points", None),
                                  Get(defense_config, "safety_buffer_seconds", DefaultSafetyBuffer),
                                  FALSE)

\* cfg: << >> when the session holds no "auto_pirate_defense" entry.
auto_defend_on_detection(cfg, env, time_left) ==
    LET defense_config == IF cfg = None THEN << >> ELSE cfg[1]
    IN  IF ~Get(defense_config, "enabled", FALSE)
        THEN [result |-> [success |-> FALSE, reason |-> ReasonNotEnabled], requests |-> << >>]
        ELSE auto_defend_pirate_attack(env, time_left,
                                       Get(defense_config, "max_capture_points", None),
                                       Get(defense_config, "safety_buffer_seconds", DefaultSafetyBuffer),
                                       FALSE)

-----------------------------------------------------------------------------
(* alertAttacks.py: the inputs of the poll loop *)

MaxMovements == 2

EventIds == 1..MaxMovements

\* One entry of militaryAndFleetMovements as line 292 reads it: the event id
\* and the isHostile flag, which may be missing.
SnapshotEntries ==
    [id : EventIds, isHostile : BOOLEAN] \cup [id : EventIds]

RECURSIVE SeqsUpTo(_, _)
SeqsUpTo(S, n) ==
    IF n = 0 THEN {<< >>}
    ELSE LET shorter == SeqsUpTo(S, n - 1)
         IN  shorter \cup {Append(s, x) : s \in shorter, x \in S}

\* The server lists each event once.
Snapshots ==
    {s \in SeqsUpTo(SnapshotEntries, MaxMovements) :
        \A i, j \in 1..Len(s) : i # j => s[i].id # s[j].id}

ServerTimes == {1000}

\* The rest of a hostile movement, as lines 301 to 364 read it.
Movement(type, icon, own, eventTime) ==
    [missionText |-> "mission", originName |-> "origin", avatarName |-> "avatar",
     targetName |-> "target", cityId |-> "city", army |-> 1, fleet |-> 1,
     eventTime |-> eventTime, type |-> type, missionIconClass |-> icon,
     isOwnArmyOrFleet |-> own]

\* The dict without key k.
Drop(d, k) == [x \in DOMAIN d \ {k} |-> d[x]]

PirateRaid == Movement("piracy", "piracyRaid", FALSE, 1400)

PlayerAttack == Movement("attack", "normalRaid", FALSE, 1400)

MovementDetails ==
    {Movement(t, i, FALSE, 1400) : t \in {"piracy", "attack"}, i \in {"piracyRaid", "normalRaid"}}
    \cup {Drop(Movement("piracy", i, FALSE, 1400), "type") : i \in {"piracyRaid", "normalRaid"}}
    \cup {Drop(Movement(t, "piracyRaid", FALSE, 1400), "missionIconClass") : t \in {"piracy", "attack"}}
    \cup {Drop(Drop(PlayerAttack, "type"), "missionIconClass"),
          Movement("piracy", "piracyRaid", FALSE, 1100),
          Movement("piracy", "piracyRaid", TRUE, 1400),
          Drop(PirateRaid, "cityId"), Drop(PirateRaid, "avatarName"),
          Drop(PlayerAttack, "army"), Drop(PlayerAttack, "avatarName")}

Page(capturePoints, progressBar) ==
    [post_raises |-> FALSE, capturePoints |-> Some(capturePoints), baseTime |-> None,
     timeValue |-> None, pointsValue |-> None, progressBar |-> progressBar]

\* What the session and the game server answer to one defense attempt of the loop.
LoopEnvs ==
    {[session_raises |-> s, fortress_found |-> f, page |-> p, convert_raises |-> c] :
        s \in {FALSE}, f \in {TRUE}, c \in BOOLEAN,
        p \in {Page(5000, FALSE), Page(5000, TRUE)}}
    \cup {[session_raises |-> TRUE, fortress_found |-> TRUE, page |-> Page(5000, FALSE),
           convert_raises |-> FALSE],
          [session_raises |-> FALSE, fortress_found |-> FALSE, page |-> Page(5000, FALSE),
           convert_raises |-> FALSE]}

LoopConfigs ==
    {None, Some(configure_auto_defense(FALSE, None, DefaultSafetyBuffer)),
     Some(configure_auto_defense(TRUE, None, DefaultSafetyBuffer))}

-----------------------------------------------------------------------------
(* alertAttacks.py: do_it *)

InSeq(x, s) == \E i \in 1..Len(s) : s[i] = x

RECURSIVE Filter(_, _)
\* [x for x in s if x in keep]
Filter(s, keep) ==
    IF s = << >> THEN << >>
    ELSE IF InSeq(Head(s), keep) THEN <<Head(s)>> \o Filter(Tail(s), keep)
    ELSE Filter(Tail(s), keep)

RECURSIVE HostileIds(_)
\* [mov for mov in militaryMovements if mov["isHostile"]], as event ids
HostileIds(snap) ==
    IF snap = << >> THEN << >>
    ELSE IF Head(snap).isHostile THEN <<Head(snap).id>> \o HostileIds(Tail(snap))
    ELSE HostileIds(Tail(snap))

\* mov["isHostile"] raises KeyError
LacksHostileFlag(snap) == \E i \in 1..Len(snap) : "isHostile" \notin DOMAIN snap[i]

ServerHostileSet(snap) ==
    {snap[i].id : i \in {j \in 1..Len(snap) : "isHostile" \in DOMAIN snap[j] /\ snap[j].isHostile}}

\* Fault variant of the classifier: the icon is not looked at.
isPirate_TypeOnly(mov) == Get(mov, "type", "None") = "piracy"

\* Fault variant of the classifier: either field is enough.
isPirate_EitherField(mov) ==
    Get(mov, "type", "None") = "piracy" \/ Get(mov, "missionIconClass", "None") = "piracyRaid"

\* Lines 324 to 327.
isPirate(mov) ==
    Get(mov, "type", "None") = "piracy" /\ Get(mov, "missionIconClass", "None") = "piracyRaid"

\* Lines 143 to 146 of emergencyDefense.py: the manual scan's rule.
is_pirate(mov) ==
    Get(mov, "type", "None") = "piracy" /\ Get(mov, "missionIconClass", "None") = "piracyRaid"

\* Keys read with [] at lines 301 to 306.
DetailKeys == {"missionText", "originName", "targetName", "army", "fleet", "eventTime"}

\* Keys read with [] while the alert text is built (lines 331 to 337, 354 to 364).
TextKeys == {"originName", "avatarName", "targetName"}

\* Keys read with [] inside the try of lines 341 to 349.
DefenseKeys == {"cityId", "originName", "targetName"}

NoSection == [header |-> "", reason |-> "", crew_converted |-> 0,
              capture_points_spent |-> 0, time_buffer |-> 0]

format_defense_result(result) ==
    IF result.success
    THEN [header |-> "AUTO-DEFENSE ACTIVATED", reason |-> "",
          crew_converted |-> result.crew_converted,
          capture_points_spent |-> result.capture_points_spent,
          time_buffer |-> result.time_buffer]
    ELSE [NoSection EXCEPT !.header = "AUTO-DEFENSE FAILED", !.reason = result.reason]

ErrorSection == [NoSection EXCEPT !.header = "AUTO-DEFENSE ERROR"]

AlertMsg(header, event_id, section) ==
    [header |-> header, event_id |-> event_id, section |-> section]

IncidentMsg == AlertMsg("Error in:", 0, NoSection)

\* Fault variant of lines 340 to 351: an exception of the defense leaves the
\* alert without a section.
DefendRaid_ErrorHidden(cfg, mov, env, timeLeft) ==
    IF ~(DefenseKeys \subseteq DOMAIN mov)
    THEN [section |-> NoSection, call |-> None, requests |-> << >>]
    ELSE IF env.session_raises
    THEN [section |-> NoSection, call |-> Some([time_left |-> timeLeft]), requests |-> << >>]
    ELSE LET d == auto_defend_on_detection(cfg, env, timeLeft)
         IN  [section |-> format_defense_result(d.result),
              call |-> Some([time_left |-> timeLeft]), requests |-> d.requests]

\* Lines 340 to 351: the defense attempt of a pirate raid and the section it
\* adds to the alert.  call: << >> when auto_defend_on_detection was not reached.
DefendRaid(cfg, mov, env, timeLeft) ==
    IF ~(DefenseKeys \subseteq DOMAIN mov)
    THEN [section |-> ErrorSection, call |-> None, requests |-> << >>]
    ELSE IF env.session_raises
    THEN [section |-> ErrorSection, call |-> Some([time_left |-> timeLeft]), requests |-> << >>]
    ELSE LET d == auto_defend_on_detection(cfg, env, timeLeft)
         IN  [section |-> format_defense_result(d.result),
              call |-> Some([time_left |-> timeLeft]), requests |-> d.requests]

\* Lines 300 to 366 for a newly seen movement: what the iteration did.
\*   raised: the exception that left the for loop ("" for none),
\*   called: auto_defend_on_detection was called, requests: what it sent to the
\*   game server, msg: the alert text built, sent: the Notifier delivered it.
HandleNew(cfg, event_id, mov, env, timeNow, notifier_ok) ==
    LET base == [event_id |-> event_id, raised |-> "KeyError", pirate |-> FALSE, called |-> FALSE, requests |-> << >>,
                 msg |-> None, sent |-> FALSE]
    IN  IF ~(DetailKeys \subseteq DOMAIN mov) THEN base
        ELSE LET timeLeft == mov.eventTime - timeNow
                 pirate == isPirate(mov)
                 d == IF pirate /\ TextKeys \subseteq DOMAIN mov
                      THEN DefendRaid(cfg, mov, env, timeLeft)
                      ELSE [section |-> NoSection, call |-> None, requests |-> << >>]
                 msg == AlertMsg(IF pirate THEN "-- PIRATE ATTACK --" ELSE "-- ALERT --",
                                 event_id, d.section)
             IN  IF ~(TextKeys \subseteq DOMAIN mov) THEN [base EXCEPT !.pirate = pirate]
                 ELSE [base EXCEPT !.pirate = pirate, !.called = (d.call # None),
                                   !.requests = d.requests, !.msg = Some(msg),
                                   !.raised = IF notifier_ok THEN "" ELSE "notifier",
                                   !.sent = notifier_ok]

\* What the loop body can do with a new movement, over every movement, answer
\* of the game server and answer of the Notifier.
NewOutcomes(cfg, event_id) ==
    {HandleNew(cfg, event_id, mov, env, timeNow, notifier_ok) :
        mov \in MovementDetails, env \in LoopEnvs, timeNow \in ServerTimes,
        notifier_ok \in BOOLEAN}

\* Lines 279 to 293 on one answer of the game server: the exception raised
\* ("" for none) and the hostile event ids in the order of the list.
ParseSnapshot(snap, transport_ok) ==
    IF ~transport_ok
    THEN [server |-> ServerHostileSet(snap), raised |-> "transport", hostile |-> << >>]
    ELSE IF LacksHostileFlag(snap)
    THEN [server |-> ServerHostileSet(snap), raised |-> "KeyError", hostile |-> << >>]
    ELSE [server |-> ServerHostileSet(snap), raised |-> "", hostile |-> HostileIds(snap)]

FetchOutcomes ==
    {ParseSnapshot(snap, transport_ok) : snap \in Snapshots, transport_ok \in BOOLEAN}

\* Lines 275 to 293: the top of the while loop up to the list the for loop iterates.
\* snap is the movement list on the game server, transport_ok whether the
\* requests and the parse of lines 279 to 289 went through.
Fetch ==
    /\ pc = "fetch"
    /\ \E got \in FetchOutcomes :
        /\ serverHostile' = got.server
        /\ alertedOnce' = (alertedOnce /\ watched \in got.server)
        /\ alertedAgain' = (alertedAgain /\ watched \in got.server)
        /\ defendedOnce' = (defendedOnce /\ watched \in got.server)
        /\ defendedAgain' = (defendedAgain /\ watched \in got.server)
        /\ hostile' = got.hostile
        /\ failure' = got.raised
        /\ pc' = IF got.raised # "" THEN "except"
                 ELSE IF got.hostile = << >> THEN "evict" ELSE "loop"
    /\ currentAttacks' = << >>
    /\ idx' = 0
    /\ outbox' = None
    /\ alertedNow' = FALSE
    /\ UNCHANGED <<otherVars, config, defense, cur, knownAttacks, evicted, watched, watchedGone>>

\* Lines 291 to 366: one iteration of the for loop.
ProcessMovement ==
    /\ pc = "loop"
    /\ idx < Len(hostile)
    /\ LET event_id == hostile[idx + 1]
           after == IF idx + 1 = Len(hostile) THEN "evict" ELSE "loop"
       IN  /\ currentAttacks' = Append(currentAttacks, event_id)
           /\ idx' = idx + 1
           /\ IF InSeq(event_id, knownAttacks)
              THEN /\ pc' = after
                   /\ UNCHANGED <<knownAttacks, outbox, failure, alertedOnce, alertedAgain,
                                  defendedOnce, defendedAgain, alertedNow>>
              ELSE \E did \in NewOutcomes(config, event_id) :
                     LET sentW == did.sent /\ event_id = watched
                         calledW == did.called /\ event_id = watched
                     IN  /\ knownAttacks' = Append(knownAttacks, event_id)
                         /\ outbox' = IF did.sent THEN did.msg ELSE outbox
                         /\ alertedOnce' = (alertedOnce \/ sentW)
                         /\ alertedNow' = (alertedNow \/ sentW)
                         /\ alertedAgain' = (alertedAgain \/ (sentW /\ alertedOnce))
                         /\ defendedOnce' = (defendedOnce \/ calledW)
                         /\ defendedAgain' = (defendedAgain \/ (calledW /\ defendedOnce))
                         /\ pc' = IF did.raised # "" THEN "except" ELSE after
                         /\ failure' = did.raised
    /\ UNCHANGED <<otherVars, config, defense, cur, serverHostile, hostile, evicted, watched,
                   watchedGone>>

\* Lines 368 to 371: the except clause of the cycle.  When sendToBot raises
\* there, the exception leaves the while loop and do_it.
HandleException ==
    /\ pc = "except"
    /\ \E notifier_ok \in BOOLEAN :
        IF notifier_ok
        THEN outbox' = Some(IncidentMsg) /\ pc' = "evict"
        ELSE outbox' = outbox /\ pc' = "raised"
    /\ UNCHANGED <<otherVars, config, defense, cur, failure, serverHostile, hostile, idx, knownAttacks,
                   currentAttacks, evicted, observers>>

SeqToSet(s) == {s[i] : i \in 1..Len(s)}

\* Lines 373 to 378: remove old attacks and sleep; the next cycle starts at line 275.
EvictAndSleep ==
    /\ pc = "evict"
    /\ knownAttacks' = Filter(knownAttacks, currentAttacks)
    /\ evicted' = SeqToSet(knownAttacks) \ SeqToSet(currentAttacks)
    /\ watchedGone' = (InSeq(watched, knownAttacks) /\ watched \notin serverHostile)
    /\ pc' = "fetch"
    /\ UNCHANGED <<otherVars, config, defense, cur, failure, serverHostile, hostile, idx,
                   currentAttacks, outbox, watched, alertedOnce, alertedAgain,
                   defendedOnce, defendedAgain, alertedNow>>

\* alertAttacks is past its configuration and inside do_it; the listener thread runs.
InPollLoop ==
    /\ startup = [pc |-> "polling", event_set |-> TRUE, logged_out |-> FALSE, raised |-> ""]
    /\ listener = [thread |-> "running", vacation |-> FALSE, log |-> << >>, raised |-> ""]

\* The Telegram menu plugin is not started and nothing is stored for it.
PluginOff ==
    /\ screen = [lines |-> << >>, chunks |-> None]
    /\ bot = [running |-> FALSE, polling |-> FALSE, thread |-> "none", handled |-> None,
              killed |-> {}, sent |-> << >>, raised |-> ""]
    /\ shared = << >>
    /\ setup = [pc |-> "off", before |-> None, result |-> None, ended |-> ""]

\* telegram_bot.main has not been run: OutputControl, TeeStdout and
\* TelegramPoller are as their constructors leave them.
MenuOff ==
    /\ output = [mode |-> "quiet", first_message_received |-> FALSE, touched |-> FALSE,
                 calls |-> 0, last |-> None]
    /\ tee = [telegram_buffer |-> << >>, flushing |-> None, written |-> 0,
              quietWritten |-> {}, sentOnce |-> {}, sentTwice |-> {}, lastFlush |-> None]
    /\ poller = [chat_id |-> 7, last_update_id |-> 0, running |-> FALSE, thread |-> None,
                 threads |-> << >>, server |-> << >>, handledBy |-> {}, again |-> {},
                 raisedOn |-> {}]
    /\ launch = [at |-> "off", configured |-> FALSE, raised |-> "", credentials |-> None]

\* do_it has just been entered: knownAttacks = [] (line 273).
LoopStart ==
    /\ pc = "fetch"
    /\ failure = ""
    /\ serverHostile = {}
    /\ hostile = << >>
    /\ idx = 0
    /\ knownAttacks = << >>
    /\ currentAttacks = << >>
    /\ outbox = None
    /\ evicted = {}
    /\ alertedOnce = FALSE
    /\ alertedAgain = FALSE
    /\ defendedOnce = FALSE
    /\ defendedAgain = FALSE
    /\ alertedNow = FALSE
    /\ watchedGone = FALSE
    /\ earlier = None

Init ==
    /\ InPollLoop
    /\ PluginOff
    /\ MenuOff
    /\ config \in LoopConfigs
    /\ defense = None
    /\ cur = None
    /\ watched \in EventIds
    /\ LoopStart

Next == Fetch \/ ProcessMovement \/ HandleException \/ EvictAndSleep

Spec == Init /\ [][Next]_vars

-----------------------------------------------------------------------------
(* The loop body on its own: lines 300 to 366 applied to one new movement *)

DetectNew ==
    /\ cur = None
    /\ \E event_id \in EventIds, mov \in MovementDetails, env \in LoopEnvs,
          timeNow \in ServerTimes, notifier_ok \in BOOLEAN :
        cur' = Some([mov |-> mov, env |-> env, timeNow |-> timeNow, notifier_ok |-> notifier_ok,
                     did |-> HandleNew(config, event_id, mov, env, timeNow, notifier_ok)])
    /\ UNCHANGED <<otherVars, config, defense, loopVars, observers>>

NextDetect == DetectNew

SpecDetect == Init /\ [][NextDetect]_vars

-----------------------------------------------------------------------------
(* The defense on its own: configuration, the trigger, the planner *)

TimeLefts == {-5, 100, 250, 276, 283, 400, 1300}

CapInputs == {None, Some(0), Some(5), Some(50), Some(20000)}

BufferInputs == {0, 10, DefaultSafetyBuffer}

Pages ==
    [post_raises : {FALSE},
     capturePoints : {None, Some(5), Some(10), Some(5000), Some(7000), Some(7005), Some(7100)},
     baseTime : {None, Some(<<1, 0>>)},
     timeValue : {None, Some(0), Some(2)},
     pointsValue : {None, Some(0), Some(3)},
     progressBar : BOOLEAN]
    \cup {[Page(5000, FALSE) EXCEPT !.post_raises = TRUE]}

DefenseEnvs ==
    [fortress_found : {TRUE}, page : Pages, convert_raises : BOOLEAN]
    \cup {[fortress_found |-> FALSE, page |-> Page(5000, FALSE), convert_raises |-> FALSE]}

\* The operator answers the prompts of lines 47 to 57.
ConfigureAutoDefense ==
    /\ defense = None
    /\ \E auto_defend \in BOOLEAN, max_points_input \in CapInputs, safety_buffer \in BufferInputs :
        config' = Some(configure_auto_defense(auto_defend, max_points_input, safety_buffer))
    /\ UNCHANGED <<otherVars, defense, cur, loopVars, observers>>

DefenseCall(via, env, arrival, cap, buffer, allow, d) ==
    [via |-> via, env |-> env, attack_arrival_seconds |-> arrival,
     max_capture_points |-> cap, safety_buffer_seconds |-> buffer,
     allow_bonus_loss |-> allow, result |-> d.result, requests |-> d.requests]

\* A pirate raid is detected under the stored configuration (the first attempt
\* is the one observed).
AutoDefendOnDetection ==
    /\ defense = None
    /\ \E env \in DefenseEnvs, time_left \in TimeLefts :
        LET defense_config == IF config = None THEN << >> ELSE config[1]
        IN  defense' = Some(DefenseCall("detection", env, time_left,
                              Get(defense_config, "max_capture_points", None),
                              Get(defense_config, "safety_buffer_seconds", DefaultSafetyBuffer),
                              FALSE, auto_defend_on_detection(config, env, time_left)))
    /\ UNCHANGED <<otherVars, config, cur, loopVars, observers>>

\* auto_defend_pirate_attack called with any arguments.
AutoDefendPirateAttack ==
    /\ defense = None
    /\ \E env \in DefenseEnvs, arrival \in TimeLefts, cap \in CapInputs,
          buffer \in BufferInputs, allow \in BOOLEAN :
        defense' = Some(DefenseCall("direct", env, arrival, cap, buffer, allow,
                          auto_defend_pirate_attack(env, arrival, cap, buffer, allow)))
    /\ UNCHANGED <<otherVars, config, cur, loopVars, observers>>

InitDefense ==
    /\ InPollLoop
    /\ PluginOff
    /\ MenuOff
    /\ config = None
    /\ defense = None
    /\ cur = None
    /\ watched = CHOOSE id \in EventIds : TRUE
    /\ LoopStart

NextDefense == ConfigureAutoDefense \/ AutoDefendOnDetection \/ AutoDefendPirateAttack

SpecDefense == InitDefense /\ [][NextDefense]_vars

-----------------------------------------------------------------------------
(* Properties of the poll loop (Spec) *)

\* C1: over any sequence of poll cycles, failing ones included, a hostile
\* movement that is on the server's list at every cycle is alerted at most once.
C1_AlertedAtMostOnce == ~alertedAgain

\* C2: eviction runs only after a valid snapshot was parsed: a cycle whose
\* except clause ran evicts nothing from knownAttacks.
C2_FailedCycleEvictsNothing == (pc = "fetch" /\ failure # "") => evicted = {}

\* C3: no failing cycle, one where the Notifier itself fails included, makes
\* do_it return or raise.
C3_LoopNeverRaises == pc # "raised"

\* C4: an event id that is known and absent from the server's list in cycle N
\* is not known after cycle N, and when the for loop of cycle N+1 meets it
\* again its alert is delivered again.
C4_EvictedThenRealerted ==
    /\ (pc = "fetch" /\ watchedGone) => ~InSeq(watched, knownAttacks)
    /\ (pc = "evict" /\ watchedGone /\ InSeq(watched, currentAttacks)) => alertedNow

\* C5: for a pirate raid that stays on the server's list, auto_defend_on_detection
\* is called at most once over any sequence of poll cycles.
C5_DefendedAtMostOnce == ~defendedAgain

-----------------------------------------------------------------------------
(* Properties of the defense (SpecDefense) *)

\* The observed attempt returned success.
Accepted == defense # None /\ defense[1].result.success

AvailablePoints == get_conversion_data(defense[1].env.page)[1].capture_points

PointsToSpend == defense[1].result.capture_points_spent

\* C6 as stated: every accepted plan without the override leaves at least
\* 7000 points.
C6_AlwaysLeavesThreshold ==
    (Accepted /\ ~defense[1].allow_bonus_loss)
        => AvailablePoints - PointsToSpend >= PreserveThreshold

\* C6 as amended: an accepted plan without the override, made with a balance
\* of at least 7000 points, leaves at least 7000 points.
C6_LeavesThresholdWhenAbove ==
    (Accepted /\ ~defense[1].allow_bonus_loss /\ AvailablePoints >= PreserveThreshold)
        => AvailablePoints - PointsToSpend >= PreserveThreshold

\* An accepted plan that the protection cut down to exactly 7000 points left.
C6_Witness ==
    /\ Accepted
    /\ ~defense[1].allow_bonus_loss
    /\ AvailablePoints > PreserveThreshold
    /\ PointsToSpend > 0
    /\ AvailablePoints - PointsToSpend = PreserveThreshold

\* C7: every accepted plan made with a safety buffer >= 0 ends before the
\* attack arrives and spends no more than the balance.
C7_WithinTimeAndBalance ==
    (Accepted /\ defense[1].safety_buffer_seconds >= 0)
        => /\ defense[1].result.time_buffer >= 0
           /\ PointsToSpend <= AvailablePoints

\* An accepted plan that spends the whole balance.
C7_Witness ==
    /\ Accepted
    /\ defense[1].safety_buffer_seconds >= 0
    /\ defense[1].result.crew_converted >= 1
    /\ PointsToSpend = AvailablePoints

\* C8: whenever a spending cap is configured (0 included), a defense triggered
\* by a detection spends at most the cap.
C8_CapBoundsSpending ==
    (Accepted /\ defense[1].via = "detection" /\ defense[1].max_capture_points # None)
        => PointsToSpend <= defense[1].max_capture_points[1]

-----------------------------------------------------------------------------
(* Properties of the loop body (SpecDetect) *)

\* Both classification fields are present and hold the two literal tags.
BothTagsMatch(mov) ==
    /\ "type" \in DOMAIN mov
    /\ mov["type"] = "piracy"
    /\ "missionIconClass" \in DOMAIN mov
    /\ mov["missionIconClass"] = "piracyRaid"

\* C9: a hostile movement is labelled pirate raid iff its type is "piracy" and
\* its missionIconClass is "piracyRaid", by the loop and by the manual scan;
\* every other one is alerted as a player attack.
C9_ClassifierRule ==
    cur # None =>
        LET c == cur[1]
        IN  /\ is_pirate(c.mov) = BothTagsMatch(c.mov)
            /\ (DetailKeys \subseteq DOMAIN c.mov) => (c.did.pirate = BothTagsMatch(c.mov))
            /\ (c.did.msg # None) =>
                   c.did.msg[1].header = IF BothTagsMatch(c.mov) THEN "-- PIRATE ATTACK --"
                                         ELSE "-- ALERT --"

\* A movement of type "piracy" with icon "normalRaid", alerted as a player attack.
C9_Witness ==
    /\ cur # None
    /\ Get(cur[1].mov, "type", "None") = "piracy"
    /\ Get(cur[1].mov, "missionIconClass", "None") = "normalRaid"
    /\ cur[1].did.sent
    /\ cur[1].did.msg[1].header = "-- ALERT --"

\* C10: the loop calls the defense and sends fortress requests for a movement
\* only if both tags match; a movement with a tag missing or different, when
\* alerted, is alerted as a player attack with no defense section.
C10_SpendingOnlyForPirateRaid ==
    cur # None =>
        LET c == cur[1]
        IN  /\ (c.did.called \/ c.did.requests # << >>) => BothTagsMatch(c.mov)
            /\ (~BothTagsMatch(c.mov) /\ c.did.sent) =>
                   /\ c.did.msg[1].header = "-- ALERT --"
                   /\ c.did.msg[1].section = NoSection
                   /\ c.did.requests = << >>

\* A movement of type "piracy" without a missionIconClass, alerted as a player
\* attack while auto-defense is enabled, with no request sent.
C10_Witness ==
    /\ cur # None
    /\ config # None
    /\ config[1].enabled
    /\ Get(cur[1].mov, "type", "None") = "piracy"
    /\ "missionIconClass" \notin DOMAIN cur[1].mov
    /\ cur[1].did.sent
    /\ cur[1].did.msg[1].header = "-- ALERT --"
    /\ cur[1].did.requests = << >>

-----------------------------------------------------------------------------
(* Properties of the planner gates (SpecDefense) *)

\* The observed attempt fetched the conversion screen of the fortress.
Fetched ==
    /\ defense # None
    /\ InSeq(FetchRequest, defense[1].requests)
    /\ get_conversion_data(defense[1].env.page) # None

\* The conversion data the observed attempt worked with.
Cd == get_conversion_data(defense[1].env.page)[1]

\* The positions of the convert requests among the requests of the observed attempt.
ConvertsSent == {i \in 1..Len(defense[1].requests) : defense[1].requests[i].kind = "convert"}

\* C11: when the fetched conversion screen shows a conversion in progress, the
\* attempt fails with the conversion-already-running reason whatever the time,
\* balance, cap and buffer are, and no convert request is sent.
C11_InProgressAlwaysRejected ==
    (Fetched /\ defense[1].env.page.progressBar)
        => /\ ~defense[1].result.success
           /\ defense[1].result.reason = ReasonInProgress
           /\ ConvertsSent = {}

\* A conversion in progress rejected although time and balance allow a plan.
C11_Witness ==
    /\ Fetched
    /\ defense[1].env.page.progressBar
    /\ defense[1].attack_arrival_seconds = 400
    /\ Cd.capture_points = 5000
    /\ Cd.points_per_crew > 0
    /\ Cd.time_per_crew > 0
    /\ defense[1].result.reason = ReasonInProgress

\* C16: when no conversion is in progress and the balance is below the price of
\* one crew point, the attempt fails with the not-enough-points reason whatever
\* the arrival time, cap and buffer are, and no convert request is sent.
C16_MinimumBalanceGate ==
    (Fetched /\ ~Cd.conversion_in_progress /\ Cd.capture_points < Cd.points_per_crew)
        => /\ ~defense[1].result.success
           /\ defense[1].result.reason = ReasonNotEnoughPoints
           /\ ConvertsSent = {}

\* A balance of 5 points at 10 points per crew, rejected with plenty of time.
C16_Witness ==
    /\ Fetched
    /\ ~Cd.conversion_in_progress
    /\ Cd.capture_points = 5
    /\ Cd.points_per_crew = DefaultPointsPerCrew
    /\ defense[1].attack_arrival_seconds = 1300
    /\ defense[1].result.reason = ReasonNotEnoughPoints

-----------------------------------------------------------------------------
(* Properties of the planned amount (SpecDefense) *)

\* The smallest element of a non-empty set of integers.
MinOfSet(S) == CHOOSE m \in S : \A x \in S : m <= x

\* arrival - safetyBuffer of the observed attempt.
AvailableTime == defense[1].attack_arrival_seconds - defense[1].safety_buffer_seconds

\* The scraped prices are usable as divisors.
PricesPositive == Cd.points_per_crew > 0 /\ Cd.time_per_crew > 0

\* The observed attempt passes the mutual-exclusion, minimum-resource and
\* time-budget gates as spec.md 4.4 states them (steps 2, 3 and 5).
PassesGates ==
    /\ Fetched
    /\ PricesPositive
    /\ ~Cd.conversion_in_progress
    /\ Cd.capture_points >= Cd.points_per_crew
    /\ AvailableTime >= Cd.base_time_seconds

MaxUnitsByTime == (AvailableTime - Cd.base_time_seconds) \div Cd.time_per_crew

MaxUnitsByResource == Cd.capture_points \div Cd.points_per_crew

MaxUnitsByPreserve == (Cd.capture_points - PreserveThreshold) \div Cd.points_per_crew

\* The minimum of spec.md 4.4 step 8: the cap bound counts whenever a cap is
\* set, the preservation bound when there is no override and the balance is
\* at least 7000.
UnitsToConvert ==
    MinOfSet({MaxUnitsByTime, MaxUnitsByResource}
             \cup (IF defense[1].max_capture_points # None
                   THEN {defense[1].max_capture_points[1] \div Cd.points_per_crew} ELSE {})
             \cup (IF ~defense[1].allow_bonus_loss /\ Cd.capture_points >= PreserveThreshold
                   THEN {MaxUnitsByPreserve} ELSE {}))

\* The observed attempt is scenario A of spec.md 8.
ScenarioA ==
    /\ Fetched
    /\ Cd = [capture_points |-> 5000, base_time_seconds |-> 156, time_per_crew |-> 7,
             points_per_crew |-> 10, conversion_in_progress |-> FALSE]
    /\ defense[1].attack_arrival_seconds = 400
    /\ defense[1].safety_buffer_seconds = 120
    /\ defense[1].max_capture_points = None
    /\ ~defense[1].env.convert_raises

\* The planned amount is the minimum of step 8, and a minimum <= 0 is rejected
\* with the zero-crew reason.
PlansTheMinimum ==
    IF UnitsToConvert <= 0
    THEN /\ defense[1].result.reason = ReasonZeroCrew
         /\ ConvertsSent = {}
    ELSE /\ \E i \in ConvertsSent : defense[1].requests[i].crewPoints = UnitsToConvert
         /\ defense[1].result.success => defense[1].result.crew_converted = UnitsToConvert

\* C12: for inputs that pass the three gates the crew converted is the minimum
\* of the time, balance, cap (when set) and preservation (when it applies)
\* bounds, a minimum <= 0 is rejected with the zero-crew reason, and scenario A
\* converts 17 crew for 170 points with a time buffer of 125.
C12_UnitsAreTheMinimum ==
    /\ PassesGates => PlansTheMinimum
    /\ ScenarioA => /\ defense[1].result.crew_converted = 17
                    /\ defense[1].result.capture_points_spent = 170
                    /\ defense[1].result.time_buffer = 125

\* C12 away from the two faults it meets: a cap of 0 (C8) and a time bound of 0
\* behind a passed time gate (C13).
C12_UnitsAreTheMinimumElsewhere ==
    /\ (PassesGates /\ defense[1].max_capture_points # Some(0) /\ MaxUnitsByTime >= 1)
           => PlansTheMinimum
    /\ ScenarioA => /\ defense[1].result.crew_converted = 17
                    /\ defense[1].result.capture_points_spent = 170
                    /\ defense[1].result.time_buffer = 125

\* C13: with no conversion in progress and at least the price of one crew point,
\* the attempt fails with the too-close reason exactly when arrival - buffer is
\* below the base time; when the base time fits but not one crew point, the
\* reason is the zero-crew one.
C13_TooCloseOnlyBelowBaseTime ==
    (Fetched /\ PricesPositive /\ ~Cd.conversion_in_progress
        /\ Cd.capture_points >= Cd.points_per_crew)
        => /\ (defense[1].result.reason = ReasonTooClose) <=> (AvailableTime < Cd.base_time_seconds)
           /\ (AvailableTime >= Cd.base_time_seconds /\ MaxUnitsByTime = 0)
                  => defense[1].result.reason = ReasonZeroCrew

\* C14: without the override and with a balance of at least 7000, the plan is at
\* most floor((balance - 7000) / price) crew and leaves at least 7000 points;
\* when that bound is 0 while time and balance allow a conversion, the attempt
\* fails with the zero-crew reason.
C14_PreservationCap ==
    (Fetched /\ PricesPositive /\ ~defense[1].allow_bonus_loss
        /\ Cd.capture_points >= PreserveThreshold)
        => /\ \A i \in ConvertsSent : defense[1].requests[i].crewPoints <= MaxUnitsByPreserve
           /\ defense[1].result.success
                  => Cd.capture_points - defense[1].result.capture_points_spent >= PreserveThreshold
           /\ (PassesGates /\ MaxUnitsByTime >= 1 /\ MaxUnitsByPreserve = 0)
                  => /\ defense[1].result.reason = ReasonZeroCrew
                     /\ ConvertsSent = {}

\* Scenario C: 7005 points at 10 per crew with time for a conversion, rejected.
C14_Witness ==
    /\ PassesGates
    /\ ~defense[1].allow_bonus_loss
    /\ Cd.capture_points = 7005
    /\ Cd.points_per_crew = 10
    /\ MaxUnitsByTime >= 1
    /\ defense[1].result.reason = ReasonZeroCrew

\* The crew an attempt converted, a rejected or failed attempt counting as 0.
Units(d) == IF d.result.success THEN d.result.crew_converted ELSE 0

\* The observed attempt made again with another arrival time and nothing else changed.
ReplayAt(arrival) ==
    IF defense[1].via = "direct"
    THEN auto_defend_pirate_attack(defense[1].env, arrival, defense[1].max_capture_points,
                                   defense[1].safety_buffer_seconds, defense[1].allow_bonus_loss)
    ELSE auto_defend_on_detection(config, defense[1].env, arrival)

\* C15: of two attempts that differ only in the arrival time, the one with the
\* later arrival never converts fewer crew.
C15_MonotoneInArrival ==
    defense # None =>
        \A later \in TimeLefts :
            later >= defense[1].attack_arrival_seconds => Units(ReplayAt(later)) >= Units(defense[1])

\* An accepted plan that a later arrival makes strictly larger.
C15_Witness ==
    /\ Accepted
    /\ defense[1].result.crew_converted >= 1
    /\ \E later \in TimeLefts :
           /\ later > defense[1].attack_arrival_seconds
           /\ Units(ReplayAt(later)) > defense[1].result.crew_converted

-----------------------------------------------------------------------------
(* Properties of the executor and of the result (SpecDefense) *)

\* C17: an attempt sends at most one convert request; when that request raises
\* the attempt returns failure without a second request, and when it does not
\* raise the attempt returns success.
C17_SingleConvertRequest ==
    defense # None =>
        /\ Cardinality(ConvertsSent) <= 1
        /\ (ConvertsSent # {} /\ defense[1].env.convert_raises)
               => (~defense[1].result.success /\ defense[1].result.reason = ReasonApiFailed)
        /\ (ConvertsSent # {} /\ ~defense[1].env.convert_raises) => defense[1].result.success
        /\ defense[1].result.success => ConvertsSent # {}

\* One convert request that raised, answered with a failure.
C17_Witness ==
    /\ defense # None
    /\ Cardinality(ConvertsSent) = 1
    /\ defense[1].env.convert_raises
    /\ ~defense[1].result.success
    /\ defense[1].result.reason = ReasonApiFailed

\* C18: every successful result has capture_points_spent = crew_converted * price,
\* conversion_time = base time + crew_converted * time per crew,
\* time_buffer = arrival - conversion_time, and crew_converted >= 1.
C18_PlanInvariants ==
    Accepted =>
        LET r == defense[1].result
        IN  /\ r.capture_points_spent = r.crew_converted * Cd.points_per_crew
            /\ r.conversion_time = Cd.base_time_seconds + r.crew_converted * Cd.time_per_crew
            /\ r.time_buffer = defense[1].attack_arrival_seconds - r.conversion_time
            /\ r.crew_converted >= 1

\* A successful result with several crew at prices scraped from the page.
C18_Witness ==
    /\ Accepted
    /\ defense[1].result.crew_converted >= 2
    /\ defense[1].env.page.pointsValue = Some(3)
    /\ defense[1].env.page.timeValue = Some(2)
    /\ defense[1].env.page.baseTime = Some(<<1, 0>>)

\* C19: in every result of auto_defend_on_detection and auto_defend_pirate_attack
\* success and reason exclude each other: success comes with an empty reason,
\* failure with a non-empty reason and crew_converted = capture_points_spent = 0.
C19_SuccessExcludesReason ==
    defense # None =>
        LET r == defense[1].result
        IN  /\ r.success => r.reason = ""
            /\ ~r.success => /\ r.reason # ""
                             /\ {"crew_converted", "capture_points_spent"} \subseteq DOMAIN r
                             /\ r.crew_converted = 0
                             /\ r.capture_points_spent = 0

\* C19 for the results that auto_defend_pirate_attack built.
C19_SuccessExcludesReasonInPlannerResults ==
    (defense # None /\ "crew_converted" \in DOMAIN defense[1].result) =>
        LET r == defense[1].result
        IN  /\ r.success => r.reason = ""
            /\ ~r.success => (r.reason # "" /\ r.crew_converted = 0 /\ r.capture_points_spent = 0)

-----------------------------------------------------------------------------
(* Properties of the defense report (SpecDetect) *)

\* What auto_defend_on_detection returned for the movement of the loop body.
DetectedAttempt ==
    auto_defend_on_detection(config, cur[1].env, cur[1].mov.eventTime - cur[1].timeNow)

\* The section reports the result: the amounts of a success, or the reason of a failure.
ReportCarries(section, r) ==
    IF r.success
    THEN /\ section.header = "AUTO-DEFENSE ACTIVATED"
         /\ section.crew_converted = r.crew_converted
         /\ section.capture_points_spent = r.capture_points_spent
         /\ section.time_buffer = r.time_buffer
    ELSE /\ section.header = "AUTO-DEFENSE FAILED"
         /\ section.reason = r.reason
         /\ r.reason # ""

\* The alert of the loop body went out as a pirate raid alert with the report
\* of the defense attempt.
ReportDelivered ==
    /\ cur[1].did.sent
    /\ cur[1].did.msg[1].header = "-- PIRATE ATTACK --"
    /\ IF cur[1].env.session_raises
       THEN cur[1].did.msg[1].section.header = "AUTO-DEFENSE ERROR"
       ELSE ReportCarries(cur[1].did.msg[1].section, DetectedAttempt.result)

\* The loop body called the defense with auto-defense enabled.
RaidDefended == cur # None /\ cur[1].did.called /\ config # None /\ config[1].enabled

\* C20: whenever the loop made a defense attempt for a new pirate raid, the
\* alert sent for it carries the success report or the specific failure reason,
\* and no attempt is left without a delivered message.
C20_EveryAttemptReported == RaidDefended => ReportDelivered

\* C20 for the iterations in which sendToBot did not raise.
C20_EveryAttemptReportedWhenNotified ==
    (RaidDefended /\ cur[1].notifier_ok) => ReportDelivered

-----------------------------------------------------------------------------
(* Properties of the poll loop (Spec), continued *)

\* C21: a movement that lacks an optional field does not abort the cycle: no
\* cycle ends in the except clause with a KeyError, and every movement that is
\* hostile on the server is taken by the for loop of that cycle (cycles whose
\* transport or Notifier failed aside).
C21_MissingFieldNeverAborts ==
    /\ failure # "KeyError"
    /\ (pc = "evict" /\ failure \notin {"transport", "notifier"} /\ watched \in serverHostile)
           => InSeq(watched, currentAttacks)

-----------------------------------------------------------------------------
(* alertAttacks.py: alertAttacks (lines 182 to 225) and respondToAttack *)

\* The poll loop and the defense stay where do_it starts them.
LoopIdle ==
    /\ config = None
    /\ defense = None
    /\ cur = None
    /\ watched = CHOOSE id \in EventIds : TRUE
    /\ LoopStart

\* A text is the sequence of its characters.
Digits == <<"0", "1", "2", "3", "4", "5", "6", "7", "8", "9">>

IsDigit(c) == \E d \in 1..10 : Digits[d] = c

DigitVal(c) == (CHOOSE d \in 1..10 : Digits[d] = c) - 1

\* \s of the pattern, within the alphabet of Texts.
IsSpace(c) == c = " "

RECURSIVE SkipDigits(_, _)
SkipDigits(t, i) == IF i <= Len(t) /\ IsDigit(t[i]) THEN SkipDigits(t, i + 1) ELSE i

RECURSIVE SkipSpaces(_, _)
SkipSpaces(t, i) == IF i <= Len(t) /\ IsSpace(t[i]) THEN SkipSpaces(t, i + 1) ELSE i

\* int() of the digits t[a], ..., t[b - 1].
RECURSIVE ToInt(_, _, _)
ToInt(t, a, b) == IF b <= a THEN 0 ELSE 10 * ToInt(t, a, b - 1) + DigitVal(t[b - 1])

\* The match of (\d+):?\s*(\d+) that starts at position i, by the order in
\* which the backtracking matcher tries: the whole run of digits as group 1,
\* with the colon and then without it; then the run less its last digit, the
\* last digit being group 2.
MatchAt(t, i) ==
    LET e     == SkipDigits(t, i)
        colon == IF e <= Len(t) /\ t[e] = ":" THEN e + 1 ELSE e
        s1    == SkipSpaces(t, colon)
        s2    == SkipSpaces(t, e)
        DigitAt(s) == s <= Len(t) /\ IsDigit(t[s])
        Groups(a, b, c, d) == Some([pid |-> ToInt(t, a, b), action |-> ToInt(t, c, d)])
    IN  IF e = i THEN None
        ELSE IF DigitAt(s1) THEN Groups(i, e, s1, SkipDigits(t, s1))
        ELSE IF DigitAt(s2) THEN Groups(i, e, s2, SkipDigits(t, s2))
        ELSE IF e - i >= 2 THEN Groups(i, e - 1, e - 1, e)
        ELSE None

\* re.search(r"(\d+):?\s*(\d+)", response) with int() of its two groups
\* (lines 242 to 247): the leftmost match, None when there is none.
re_search(t) ==
    LET starts == {i \in 1..Len(t) : MatchAt(t, i) # None}
    IN  IF starts = {} THEN None
        ELSE MatchAt(t, CHOOSE i \in starts : \A j \in starts : i <= j)

\* os.getpid() of the process that runs alertAttacks.
MyPid == 12

\* "Invalid command: {:d}".format(action)
InvalidCommand(action) == <<"Invalid command: ", action>>

\* What one response led to.
Handled(text, rta, called, msg, raised) ==
    [text |-> text, rta |-> rta, called |-> called, msg |-> msg, raised |-> raised]

\* The variant of the loop body that does not compare the pid.
HandleResponse_AnyPid(text, vacation_ok, reply_ok) ==
    LET rta == re_search(text)
    IN  IF rta = None THEN Handled(text, rta, "", None, FALSE)
        ELSE IF rta[1].action = 1
             THEN Handled(text, rta, "activateVacationMode", None, ~vacation_ok)
        ELSE Handled(text, rta, "sendToBot", Some(InvalidCommand(rta[1].action)), ~reply_ok)

\* The body of the for loop (lines 239 to 258) for one response.
HandleResponse(text, vacation_ok, reply_ok) ==
    LET rta == re_search(text)
    IN  IF rta = None THEN Handled(text, rta, "", None, FALSE)
        ELSE IF rta[1].pid # MyPid THEN Handled(text, rta, "", None, FALSE)
        ELSE IF rta[1].action = 1
             THEN Handled(text, rta, "activateVacationMode", None, ~vacation_ok)
        ELSE Handled(text, rta, "sendToBot", Some(InvalidCommand(rta[1].action)), ~reply_ok)

\* The for loop over the responses from the i-th on: it stops at the first
\* call that raises, nothing in respondToAttack catching it.
RECURSIVE ProcessResponses(_, _, _, _, _)
ProcessResponses(log, responses, i, vacation_ok, reply_ok) ==
    IF i > Len(responses) THEN log
    ELSE LET h == HandleResponse(responses[i], vacation_ok, reply_ok)
         IN  IF h.raised THEN Append(log, h)
             ELSE ProcessResponses(Append(log, h), responses, i + 1, vacation_ok, reply_ok)

MaxResponses == 2

Texts ==
    { <<"x">>,
      <<"1", "2", ":", "1">>,
      <<"1", "2", ":", "2">>,
      <<"7", ":", "1">>,
      <<"1", "2", "1">>,
      <<"x", "0", "1", "2", ":", " ", "1", "y">> }

ResponseLists == SeqsUpTo(Texts, MaxResponses)

\* The logs one pass of the for loop can leave: any list of responses, the
\* calls to activateVacationMode and to sendToBot each succeeding or raising.
PassLogs ==
    {ProcessResponses(<< >>, responses, 1, vacation_ok, reply_ok) :
        responses \in ResponseLists, vacation_ok \in BOOLEAN, reply_ok \in BOOLEAN}

\* What a call of the configuration phase can end in.
CallOutcomes == {"ok", "KeyboardInterrupt", "Exception"}

\* The try block of lines 193 to 212 after a call that did not return normally.
LeaveConfiguration(outcome) ==
    IF outcome = "KeyboardInterrupt"
    THEN [startup EXCEPT !.pc = "returned", !.event_set = TRUE]
    ELSE [startup EXCEPT !.pc = "raised", !.raised = outcome]

\* Lines 194 to 196.
CheckTelegramData ==
    /\ startup.pc = "checkTelegramData"
    /\ \/ \E has_data \in BOOLEAN :
              startup' = IF has_data THEN [startup EXCEPT !.pc = "read"]
                         ELSE [startup EXCEPT !.pc = "returned", !.event_set = TRUE]
       \/ \E outcome \in CallOutcomes \ {"ok"} : startup' = LeaveConfiguration(outcome)
    /\ UNCHANGED <<config, defense, cur, earlier, loopVars, observers, menuVars, listener, pluginVars>>

\* Lines 198 to 209: banner, read, print, enter.
ReadAndEnter ==
    /\ startup.pc \in {"read", "enter"}
    /\ \E outcome \in CallOutcomes :
           startup' = IF outcome = "ok"
                      THEN [startup EXCEPT !.pc = IF @ = "read" THEN "enter" ELSE "set_child_mode"]
                      ELSE LeaveConfiguration(outcome)
    /\ UNCHANGED <<config, defense, cur, earlier, loopVars, observers, menuVars, listener, pluginVars>>

\* Lines 214 to 220 and 269 to 271: set_child_mode, event.set(), and do_it
\* starts the listener thread.
EnterPollLoop ==
    /\ startup.pc = "set_child_mode"
    /\ startup' = [startup EXCEPT !.pc = "polling", !.event_set = TRUE]
    /\ listener' = [listener EXCEPT !.thread = "running"]
    /\ UNCHANGED <<config, defense, cur, earlier, loopVars, observers, menuVars, pluginVars>>

\* Lines 219 to 225: do_it is left by a KeyboardInterrupt, which neither
\* except Exception clause catches, or by an Exception of its own except
\* clause; finally logs the session out.
LeavePollLoop ==
    /\ startup.pc = "polling"
    /\ \E outcome \in CallOutcomes \ {"ok"} :
           startup' = [startup EXCEPT !.pc = "ended", !.raised = outcome, !.logged_out = TRUE]
    /\ UNCHANGED <<config, defense, cur, earlier, loopVars, observers, menuVars, listener, pluginVars>>

\* One pass of the while loop of respondToAttack (lines 236 to 258).
ListenerPass ==
    /\ listener.thread = "running"
    /\ \/ listener' = [listener EXCEPT !.thread = "dead", !.raised = "getUserResponse",
                                       !.log = << >>]
       \/ \E log \in PassLogs :
              LET raised == log # << >> /\ log[Len(log)].raised
                  Ran(i) == log[i].called = "activateVacationMode" /\ ~log[i].raised
              IN  listener' = [thread   |-> IF raised THEN "dead" ELSE "running",
                               vacation |-> listener.vacation \/ \E i \in 1..Len(log) : Ran(i),
                               log      |-> log,
                               raised   |-> IF raised THEN log[Len(log)].called ELSE ""]
    /\ UNCHANGED <<config, defense, cur, earlier, loopVars, observers, menuVars, startup, pluginVars>>

InitAlert ==
    /\ LoopIdle
    /\ PluginOff
    /\ MenuOff
    /\ startup = [pc |-> "checkTelegramData", event_set |-> FALSE, logged_out |-> FALSE,
                  raised |-> ""]
    /\ listener = [thread |-> "not started", vacation |-> FALSE, log |-> << >>, raised |-> ""]

NextAlert == CheckTelegramData \/ ReadAndEnter \/ EnterPollLoop \/ LeavePollLoop \/ ListenerPass

SpecAlert == InitAlert /\ [][NextAlert]_vars

-----------------------------------------------------------------------------
(* Properties of alertAttacks and respondToAttack (SpecAlert) *)

\* C22: no error raised inside the command listener terminates it: when its
\* receive, the vacation-mode action or its reply fails, the thread keeps
\* running.
C22_ListenerSurvivesErrors == listener.thread # "dead"

\* What the listener did for one response.
NothingDone(h) == h.called = "" /\ h.msg = None

VacationInvoked(h) == h.called = "activateVacationMode" /\ h.msg = None

UnrecognizedSent(h) == h.called = "sendToBot" /\ h.msg = Some(InvalidCommand(h.rta[1].action))

\* C23: for each response parsed as <pid>:<action>: a pid other than this
\* process's does nothing and sends nothing; this pid with action 1 invokes
\* the vacation-mode action; this pid with any other action sends the
\* unrecognized-command message and does not activate vacation mode.
C23_CommandDispatch ==
    \A i \in 1..Len(listener.log) :
        LET h == listener.log[i]
        IN  h.rta # None =>
                /\ h.rta[1].pid # MyPid => NothingDone(h)
                /\ (h.rta[1].pid = MyPid /\ h.rta[1].action = 1) => VacationInvoked(h)
                /\ (h.rta[1].pid = MyPid /\ h.rta[1].action # 1) => UnrecognizedSent(h)

\* Vacation mode was activated, and the last pass ignored a foreign pid and
\* answered an unknown action.
C23_Witness ==
    /\ \E i \in 1..Len(listener.log) :
           listener.log[i].rta # None /\ listener.log[i].rta[1].pid # MyPid
    /\ \E i \in 1..Len(listener.log) :
           listener.log[i].text = <<"1", "2", ":", "2">> /\ UnrecognizedSent(listener.log[i])
    /\ listener.vacation
    /\ listener.thread = "running"

\* C24: on every path by which alertAttacks leaves its configuration phase the
\* startup event is set before it returns, raises or enters the poll loop; and
\* when the poll loop is left the session is logged out.
C24_StartupEventAlwaysSet ==
    /\ startup.pc \in {"returned", "raised", "polling", "ended"} => startup.event_set
    /\ startup.pc = "ended" => startup.logged_out

\* C24, away from the paths that raise: a return, an operator interrupt and
\* the normal completion set the event, and leaving the poll loop logs out.
C24_StartupEventSetUnlessRaised ==
    /\ startup.pc \in {"returned", "polling", "ended"} => startup.event_set
    /\ startup.pc = "ended" => startup.logged_out

-----------------------------------------------------------------------------
(* Properties of the planner's deadline and data use (SpecDefense) *)

\* Base time plus the time of the crew of the i-th request of the observed attempt.
EstimatedConversionSeconds(i) ==
    Cd.base_time_seconds + defense[1].requests[i].crewPoints * Cd.time_per_crew

\* C26: for every safety buffer >= 0 the deadline re-check never rejects, and
\* every plan that passes the zero-crew gate (a convert request is sent for
\* it) has arrival - estimated conversion seconds >= safety buffer >= 0.
C26_DeadlineMissedUnreachable ==
    (defense # None /\ defense[1].safety_buffer_seconds >= 0)
        => /\ defense[1].result.reason # ReasonDeadline
           /\ \A i \in ConvertsSent :
                  defense[1].attack_arrival_seconds - EstimatedConversionSeconds(i)
                      >= defense[1].safety_buffer_seconds
           /\ Accepted => defense[1].result.time_buffer >= defense[1].safety_buffer_seconds

\* An accepted plan whose crew was bounded by the time: it ends exactly one
\* safety buffer before the attack.
C26_Witness ==
    /\ Accepted
    /\ defense[1].safety_buffer_seconds > 0
    /\ defense[1].result.crew_converted >= 2
    /\ defense[1].result.time_buffer = defense[1].safety_buffer_seconds

-----------------------------------------------------------------------------
(* Defense attempts one after another, as the poll loop makes them *)

AttemptEnvs ==
    {[fortress_found |-> TRUE, page |-> Page(balance, progress), convert_raises |-> raises] :
        balance \in {5, 5000, 7100}, progress \in BOOLEAN, raises \in BOOLEAN}

AttemptTimes == {100, 400, 1300}

\* The stored configuration with an override flag added to it. The session
\* data is the operator's; configure_auto_defense writes no such key.
WithOverride(cfg) ==
    [k \in DOMAIN cfg \cup {"allow_bonus_loss"} |->
        IF k = "allow_bonus_loss" THEN TRUE ELSE cfg[k]]

AttemptConfigs ==
    LET cfg == configure_auto_defense(TRUE, None, DefaultSafetyBuffer)
    IN  {Some(cfg), Some(WithOverride(cfg))}

\* A pirate raid is detected and defended (emergencyDefense.py, lines 261 to
\* 283); the attempt before it is remembered for the comparison only.
DetectionAttempt ==
    /\ \E env \in AttemptEnvs, time_left \in AttemptTimes :
        LET defense_config == IF config = None THEN << >> ELSE config[1]
        IN  defense' = Some(DefenseCall("detection", env, time_left,
                              Get(defense_config, "max_capture_points", None),
                              Get(defense_config, "safety_buffer_seconds", DefaultSafetyBuffer),
                              FALSE, auto_defend_on_detection(config, env, time_left)))
    /\ earlier' = defense
    /\ UNCHANGED <<procVars, pluginVars, config, cur, loopVars, observers, menuVars>>

InitAttempts ==
    /\ InPollLoop
    /\ PluginOff
    /\ MenuOff
    /\ config \in AttemptConfigs
    /\ defense = None
    /\ cur = None
    /\ watched = CHOOSE id \in EventIds : TRUE
    /\ LoopStart

NextAttempts == DetectionAttempt

SpecAttempts == InitAttempts /\ [][NextAttempts]_vars

-----------------------------------------------------------------------------
(* Properties of successive attempts (SpecAttempts) *)

\* The crew count of steps 5 to 7b, from the conversion data of the observed
\* attempt and its arguments alone.
PlannedFromFetch ==
    LET by_time   == (AvailableTime - Cd.base_time_seconds) \div Cd.time_per_crew
        by_points == Cd.capture_points \div Cd.points_per_crew
        limited   == IF Truthy(defense[1].max_capture_points)
                     THEN Min(Min(by_time, by_points),
                              defense[1].max_capture_points[1] \div Cd.points_per_crew)
                     ELSE Min(by_time, by_points)
    IN  IF ~defense[1].allow_bonus_loss /\ Cd.capture_points >= PreserveThreshold
        THEN Min(limited, (Cd.capture_points - PreserveThreshold) \div Cd.points_per_crew)
        ELSE limited

\* C25: every convert request is preceded, in the same attempt, by a fetch of
\* the conversion data, and its crew count is the one computed from the data
\* of that fetch, whatever an earlier attempt fetched.
C25_BalanceNeverCached ==
    defense # None =>
        \A i \in ConvertsSent :
            /\ \E j \in 1..(i - 1) : defense[1].requests[j] = FetchRequest
            /\ Fetched
            /\ defense[1].requests[i].crewPoints = PlannedFromFetch

\* Two attempts in a row that both sent a convert request, from different
\* balances and for different crew counts.
C25_Witness ==
    /\ earlier # None
    /\ defense # None
    /\ ConvertsSent # {}
    /\ \E k \in 1..Len(earlier[1].requests) :
           /\ earlier[1].requests[k].kind = "convert"
           /\ earlier[1].requests[k].crewPoints
                  # defense[1].requests[CHOOSE i \in ConvertsSent : TRUE].crewPoints
    /\ earlier[1].env.page.capturePoints # defense[1].env.page.capturePoints
    /\ earlier[1].attack_arrival_seconds = defense[1].attack_arrival_seconds

\* The stored configuration carries the resource-preservation override.
OverrideSet == config # None /\ Get(config[1], "allow_bonus_loss", FALSE)

\* The minimum of the time, resource and operator-cap bounds.
UnitsWithoutPreservation ==
    MinOfSet({MaxUnitsByTime, MaxUnitsByResource}
             \cup (IF defense[1].max_capture_points # None
                   THEN {defense[1].max_capture_points[1] \div Cd.points_per_crew} ELSE {}))

\* C27: with the override flag set, an attempt triggered by the poll loop plans
\* without the preservation cap: the crew of its convert request is the
\* minimum of the time, resource and cap bounds, also when that takes the
\* balance below 7000.
C27_OverrideLiftsPreservation ==
    (defense # None /\ defense[1].via = "detection" /\ OverrideSet
        /\ PassesGates /\ UnitsWithoutPreservation > 0)
        => \E i \in ConvertsSent : defense[1].requests[i].crewPoints = UnitsWithoutPreservation

\* C27 for the planner called directly with the override: it plans without the
\* preservation cap (a cap of 0, the fault of C8, aside).
C27_PlannerHonoursOverride ==
    (defense # None /\ defense[1].via = "direct" /\ defense[1].allow_bonus_loss
        /\ PassesGates /\ defense[1].max_capture_points # Some(0)
        /\ UnitsWithoutPreservation > 0)
        => \E i \in ConvertsSent : defense[1].requests[i].crewPoints = UnitsWithoutPreservation

-----------------------------------------------------------------------------
(* plugins/telegram: screen_buffer.py, bot.py and the poller thread *)

max_chunk_size == 4000

\* len("(Screen is empty)")
EmptyScreenLength == 17

MaxLines == 3

\* A line is modelled by its length; its characters are not whitespace.
LineLengths == {0, 1, 3999, 4000, 4001, 8001}

\* The texts given to add, each as text.split("\n") sees it: <<0>> is "".
ScreenTexts == {<<n>> : n \in LineLengths} \cup {<<0, 0>>, <<1, 4001>>}

\* ScreenBuffer.add: the lines after the call.
add(lines, text) == IF text = <<0>> THEN lines ELSE lines \o text

RECURSIVE SumLen(_)
SumLen(ls) == IF ls = << >> THEN 0 ELSE Head(ls) + SumLen(Tail(ls))

\* len("\n".join(ls))
JoinedLength(ls) == IF ls = << >> THEN 0 ELSE SumLen(ls) + Len(ls) - 1

\* The for loop of lines 67 to 83 from the i-th line on, then lines 86 to 87.
\* chunks: the lengths of the chunks appended so far; current_chunk: the
\* lines collected for the next one.
RECURSIVE SplitIntoChunks(_, _, _, _, _)
SplitIntoChunks(lines, i, chunks, current_chunk, current_length) ==
    IF i > Len(lines)
    THEN IF current_chunk # << >> THEN Append(chunks, JoinedLength(current_chunk)) ELSE chunks
    ELSE LET line == lines[i]
             line_length == line + 1
         IN  IF current_length + line_length > max_chunk_size
             THEN IF current_chunk # << >>
                  THEN SplitIntoChunks(lines, i + 1, Append(chunks, JoinedLength(current_chunk)),
                                       <<line>>, line_length)
                  ELSE SplitIntoChunks(lines, i + 1, Append(chunks, Min(line, max_chunk_size)),
                                       <<Max(line - max_chunk_size, 0)>>,
                                       Max(line - max_chunk_size, 0))
             ELSE SplitIntoChunks(lines, i + 1, chunks, Append(current_chunk, line),
                                  current_length + line_length)

\* ScreenBuffer.get_screen: the lengths of the chunks it returns.
get_screen(lines) ==
    IF SumLen(lines) = 0 THEN <<EmptyScreenLength>>
    ELSE IF JoinedLength(lines) <= max_chunk_size THEN <<JoinedLength(lines)>>
    ELSE LET chunks == SplitIntoChunks(lines, 1, << >>, << >>, 0)
         IN  IF chunks # << >> THEN chunks ELSE <<EmptyScreenLength>>

\* The pids updateProcessList can return.
Pids == {201, 202}

KilledMessage(n) == <<"Stopped bot and killed N tasks", n>>

BotStopped == <<"Bot stopped">>

\* TelegramBot.stop (bot.py, lines 78 to 112) with TelegramPoller.stop (poller.py,
\* lines 38 to 42). b: the bot after the caller reset killed, sent and raised.
\* on_poller_thread: the caller runs on the poller's thread, where
\* self.thread.join raises RuntimeError (cannot join current thread).
\* process_list: None when updateProcessList raised.
stop(b, kill_tasks, on_poller_thread, process_list, send_ok) ==
    LET stopped == [b EXCEPT !.running = FALSE, !.polling = FALSE]
    IN  IF b.thread # "none" /\ on_poller_thread
        THEN [stopped EXCEPT !.raised = "RuntimeError"]
        ELSE IF kill_tasks
        THEN IF process_list = None
             THEN IF send_ok THEN [stopped EXCEPT !.sent = <<BotStopped>>]
                  ELSE [stopped EXCEPT !.raised = "Exception"]
             ELSE IF send_ok
                  THEN [stopped EXCEPT !.killed = process_list[1],
                                       !.sent = <<KilledMessage(Cardinality(process_list[1]))>>]
                  ELSE [stopped EXCEPT !.killed = process_list[1], !.raised = "Exception"]
        ELSE IF send_ok THEN [stopped EXCEPT !.sent = <<BotStopped>>] ELSE stopped

\* The bot with the record of an earlier call cleared and the new call noted.
Handling(command, on) ==
    [bot EXCEPT !.handled = Some([command |-> command, on |-> on]),
                !.killed = {}, !.sent = << >>, !.raised = ""]

\* The tee of stdout adds text to the screen buffer (add, lines 28 to 40).
Add ==
    /\ \E text \in ScreenTexts :
        /\ Len(add(screen.lines, text)) <= MaxLines
        /\ add(screen.lines, text) # screen.lines
        /\ screen' = [lines |-> add(screen.lines, text), chunks |-> None]
    /\ UNCHANGED <<config, defense, cur, earlier, loopVars, observers, menuVars, procVars, bot, shared, setup>>

\* The terminal is cleared (mark_cleared, lines 19 to 26).
MarkCleared ==
    /\ screen.lines # << >>
    /\ screen' = [lines |-> << >>, chunks |-> None]
    /\ UNCHANGED <<config, defense, cur, earlier, loopVars, observers, menuVars, procVars, bot, shared, setup>>

\* TelegramBot.start (bot.py, lines 56 to 76) with TelegramPoller.start.
BotStart ==
    /\ ~bot.running
    /\ \E send_ok \in BOOLEAN :
        bot' = [Handling("start", "main") EXCEPT
                   !.running = TRUE, !.polling = TRUE, !.thread = "alive",
                   !.sent = IF send_ok THEN <<<<"Telegram Bot Started">>>> ELSE << >>]
    /\ UNCHANGED <<config, defense, cur, earlier, loopVars, observers, menuVars, procVars, screen, shared, setup>>

\* /view (bot.py, lines 152 to 158), handled on the poller's thread.
ViewCommand ==
    /\ bot.polling /\ bot.thread = "alive"
    /\ screen.chunks = None
    /\ \E send_ok \in BOOLEAN :
        LET chunks == get_screen(screen.lines)
        IN  /\ screen' = [screen EXCEPT !.chunks = Some(chunks)]
            /\ bot' = [Handling("/view", "poller") EXCEPT
                          !.sent = IF send_ok THEN [i \in 1..Len(chunks) |-> <<"chunk", chunks[i]>>]
                                   ELSE << >>]
    /\ UNCHANGED <<config, defense, cur, earlier, loopVars, observers, menuVars, procVars, shared, setup>>

\* /stop and /help (bot.py, lines 177 to 191 and 200 to 213), handled on the
\* poller's thread.
PromptCommand ==
    /\ bot.polling /\ bot.thread = "alive"
    /\ \E command \in {"/stop", "/help"}, send_ok \in BOOLEAN :
        bot' = [Handling(command, "poller") EXCEPT
                   !.sent = IF ~send_ok THEN << >>
                            ELSE IF command = "/stop" THEN <<<<"Stop telegram bot?">>>>
                            ELSE <<<<"Telegram Bot Commands">>>>]
    /\ UNCHANGED <<config, defense, cur, earlier, loopVars, observers, menuVars, procVars, screen, shared, setup>>

\* /stop bot and /stop all (bot.py, lines 193 to 197), handled on the poller's
\* thread; what stop raises is swallowed at poller.py, lines 69 to 70.
StopCommand ==
    /\ bot.polling /\ bot.thread = "alive"
    /\ \E command \in {"/stop bot", "/stop all"}, send_ok \in BOOLEAN,
          process_list \in {None} \cup {Some(l) : l \in SUBSET Pids} :
        bot' = stop(Handling(command, "poller"), command = "/stop all", TRUE,
                    process_list, send_ok)
    /\ UNCHANGED <<config, defense, cur, earlier, loopVars, observers, menuVars, procVars, screen, shared, setup>>

\* The poll loop sees running = False and its thread ends (poller.py, line 46).
PollerExits ==
    /\ bot.thread = "alive" /\ ~bot.polling
    /\ bot' = [bot EXCEPT !.thread = "ended"]
    /\ UNCHANGED <<config, defense, cur, earlier, loopVars, observers, menuVars, procVars, screen, shared, setup>>

\* bot.stop() on the main thread: the signal handler and the finally clause of
\* telegram_bot.py (lines 148 and 175).
MainStop ==
    /\ bot.thread # "none"
    /\ \E send_ok \in BOOLEAN :
        bot' = stop(Handling("stop", "main"), FALSE, FALSE, None, send_ok)
    /\ UNCHANGED <<config, defense, cur, earlier, loopVars, observers, menuVars, procVars, screen, shared, setup>>

InitTelegram ==
    /\ LoopIdle
    /\ InPollLoop
    /\ PluginOff
    /\ MenuOff

NextTelegram ==
    Add \/ MarkCleared \/ BotStart \/ ViewCommand \/ PromptCommand \/ StopCommand
        \/ PollerExits \/ MainStop

SpecTelegram == InitTelegram /\ [][NextTelegram]_vars

-----------------------------------------------------------------------------
(* Properties of the Telegram plugin (SpecTelegram) *)

\* C28: whatever add and mark_cleared put into the buffer, lines longer than
\* the chunk size included, each chunk get_screen returns has at most 4000
\* characters.
C28_ChunksWithinLimit ==
    screen.chunks # None =>
        \A i \in 1..Len(screen.chunks[1]) : screen.chunks[1][i] <= max_chunk_size

\* C28 for buffers without a line longer than the chunk size.
C28_ChunksWithinLimitForShortLines ==
    (screen.chunks # None /\ \A k \in 1..Len(screen.lines) : screen.lines[k] <= max_chunk_size)
        => \A i \in 1..Len(screen.chunks[1]) : screen.chunks[1][i] <= max_chunk_size

\* The last call handled was this command on the poller's thread.
HandledOnPoller(command) == bot.handled = Some([command |-> command, on |-> "poller"])

\* C29: after "/stop all" was handled on the poller's thread the bot no longer
\* polls, every listed process was sent SIGTERM and the confirmation with the
\* number of tasks was sent; after "/stop bot" the bot no longer polls and
\* "Bot stopped" was sent.
C29_StopCommands ==
    /\ HandledOnPoller("/stop all")
           => /\ ~bot.polling
              /\ \E n \in 0..Cardinality(Pids) :
                     /\ bot.sent = <<KilledMessage(n)>>
                     /\ Cardinality(bot.killed) = n
    /\ HandledOnPoller("/stop bot") => (~bot.polling /\ bot.sent = <<BotStopped>>)

\* C29 for the stop made on the main thread, when the message can be sent:
\* polling ends and "Bot stopped" is sent.
C29_MainThreadStop ==
    (bot.handled = Some([command |-> "stop", on |-> "main"]) /\ bot.raised = "")
        => (~bot.polling /\ ~bot.running /\ bot.sent \in {<<BotStopped>>, << >>})

-----------------------------------------------------------------------------
(* plugins/telegram/setup.py: setupIkaChef *)

Credentials(bot_token, chat_id) == [botToken |-> bot_token, chatId |-> chat_id]

\* session.setSessionData(data, shared=True): the keys of data are stored in
\* the shared part of the session data, the other keys are kept.
setSessionData(sh, data) ==
    [k \in DOMAIN sh \cup DOMAIN data |-> IF k \in DOMAIN data THEN data[k] ELSE sh[k]]

\* session_data["shared"]["telegram"], None when the key is absent.
TelegramOf(sh) == IF "telegram" \in DOMAIN sh THEN Some(sh["telegram"]) ELSE None

\* Lines 116 to 157 once the token and the chat id are known.
\* save_ok, swap_ok, restore_ok: the three setSessionData calls did not raise;
\* send_ok: sendToBot did not raise.
\* Returns the shared data after the call, the result and where the try
\* blocks were left.
SaveAndConfirm(sh, bot_token, chat_id, save_ok, swap_ok, send_ok, restore_ok) ==
    LET saved == setSessionData(sh, [ikaChef |-> Credentials(bot_token, chat_id)])
        has_notification_bot == "telegram" \in DOMAIN saved
        swapped == setSessionData(saved, [telegram |-> Credentials(bot_token, chat_id)])
        restored == setSessionData(swapped, [telegram |-> saved["telegram"]])
    IN  IF ~save_ok THEN [shared |-> sh, result |-> FALSE, ended |-> "save raised"]
        ELSE IF ~swap_ok THEN [shared |-> saved, result |-> TRUE, ended |-> "swap raised"]
        ELSE IF ~send_ok THEN [shared |-> swapped, result |-> TRUE, ended |-> "send raised"]
        ELSE IF ~has_notification_bot
             THEN [shared |-> swapped, result |-> TRUE, ended |-> "confirmed"]
        ELSE IF ~restore_ok
             THEN [shared |-> swapped, result |-> TRUE, ended |-> "restore raised"]
        ELSE [shared |-> restored, result |-> TRUE, ended |-> "confirmed"]

BotTokens == {"1:chefA", "2:chefB"}

ChatIds == {"7", "8"}

\* The places where setupIkaChef returns False before it writes (lines 35 to 114).
EarlyReturns == {"no token", "bad token", "getMe failed", "cancelled"}

\* What the shared session data can hold when setupIkaChef is called first.
SharedBefore == {<< >>, [telegram |-> Credentials("9:notify", "7")]}

\* setupIkaChef (lines 12 to 169), from the prompt to its return.
SetupIkaChef ==
    /\ \/ \E ended \in EarlyReturns :
              /\ setup' = [pc |-> "returned", before |-> TelegramOf(shared),
                           result |-> Some(FALSE), ended |-> ended]
              /\ shared' = shared
       \/ \E bot_token \in BotTokens, chat_id \in ChatIds,
             save_ok, swap_ok, send_ok, restore_ok \in BOOLEAN :
              LET r == SaveAndConfirm(shared, bot_token, chat_id,
                                      save_ok, swap_ok, send_ok, restore_ok)
              IN  /\ setup' = [pc |-> "returned", before |-> TelegramOf(shared),
                               result |-> Some(r.result), ended |-> r.ended]
                  /\ shared' = r.shared
    /\ UNCHANGED <<config, defense, cur, earlier, loopVars, observers, menuVars, procVars, screen, bot>>

InitSetup ==
    /\ LoopIdle
    /\ InPollLoop
    /\ screen = [lines |-> << >>, chunks |-> None]
    /\ bot = [running |-> FALSE, polling |-> FALSE, thread |-> "none", handled |-> None,
              killed |-> {}, sent |-> << >>, raised |-> ""]
    /\ setup = [pc |-> "off", before |-> None, result |-> None, ended |-> ""]
    /\ MenuOff
    /\ shared \in SharedBefore

NextSetup == SetupIkaChef

SpecSetup == InitSetup /\ [][NextSetup]_vars

-----------------------------------------------------------------------------
(* Properties of setupIkaChef (SpecSetup) *)

\* C30: after setupIkaChef returned, with True or False and also when the
\* confirmation could not be sent, the shared "telegram" credentials are what
\* they were before the call, and absent if they were absent.
C30_NotificationBotUndisturbed ==
    setup.result # None => TelegramOf(shared) = setup.before

\* C30 where it holds: the notification bot was configured and the swap, the
\* confirmation and the restore all went through, or nothing was swapped.
C30_RestoredAfterConfirmation ==
    (setup.result # None
        /\ \/ setup.ended \in EarlyReturns \cup {"save raised", "swap raised"}
           \/ setup.ended = "confirmed" /\ setup.before # None)
        => TelegramOf(shared) = setup.before

-----------------------------------------------------------------------------
(* Properties of the poll loop and its defense trigger, continued *)

\* C33: at the end of every poll cycle each event id in knownAttacks has had
\* its alert sent to the operator since it was added: no id is recorded as
\* known while its alert was not delivered.
C33_KnownImpliesAlerted ==
    (pc = "fetch" /\ InSeq(watched, knownAttacks)) => alertedOnce

\* The filter of the manual scan for a hostile movement (emergencyDefense.py,
\* lines 141 to 146).
manual_scan_selects(mov) == ~Get(mov, "isOwnArmyOrFleet", FALSE) /\ is_pirate(mov)

\* C34: the loop triggers the defense only for incoming raids: a movement of
\* the operator's own never causes a request to the fortress, and every
\* movement the loop sends fortress requests for is one the manual scan selects.
C34_OnlyIncomingRaidsDefended ==
    cur # None =>
        /\ Get(cur[1].mov, "isOwnArmyOrFleet", FALSE) => cur[1].did.requests = << >>
        /\ cur[1].did.requests # << >> => manual_scan_selects(cur[1].mov)

\* C34 for the movements that are not the operator's own: the loop classifies
\* them as the manual scan does.
C34_SameSelectionForIncoming ==
    (cur # None /\ ~Get(cur[1].mov, "isOwnArmyOrFleet", FALSE)
        /\ DetailKeys \subseteq DOMAIN cur[1].mov)
        => (cur[1].did.pirate = manual_scan_selects(cur[1].mov))

\* The stored configuration is absent or has its enabled flag false.
DefenseDisabled == config = None \/ ~Get(config[1], "enabled", FALSE)

\* C35: with the configuration absent or disabled, auto_defend_on_detection
\* sends no request to the game server (no fortress lookup, no fetch, no
\* convert) and returns a failure.
C35_DisabledSendsNothing ==
    (defense # None /\ defense[1].via = "detection" /\ DefenseDisabled)
        => /\ defense[1].requests = << >>
           /\ ~defense[1].result.success

\* A raid detected under a stored, disabled configuration, with a fortress
\* that could have converted.
C35_Witness ==
    /\ defense # None
    /\ defense[1].via = "detection"
    /\ config # None
    /\ ~config[1].enabled
    /\ defense[1].env.fortress_found
    /\ defense[1].env.page = Page(5000, FALSE)
    /\ defense[1].attack_arrival_seconds = 400
    /\ defense[1].requests = << >>
    /\ defense[1].result.reason = ReasonNotEnabled

\* The defense attempt of the observed pirate raid raised inside the try of
\* lines 341 to 349: a key of the movement was missing or the session raised.
DefensePathRaised ==
    /\ cur # None
    /\ DetailKeys \cup TextKeys \subseteq DOMAIN cur[1].mov
    /\ isPirate(cur[1].mov)
    /\ (~(DefenseKeys \subseteq DOMAIN cur[1].mov) \/ cur[1].env.session_raises)

-----------------------------------------------------------------------------
(* plugins/telegram/output_control.py and virtual_terminal.py                *)
(* The menu runs on the main thread and prints through TeeStdout; the        *)
(* poller's thread handles /monitor, /mute and the first plain message.      *)
(* Every method of OutputControl holds its lock from its first statement to  *)
(* its return, so each is one step; flush gives the lock back between its    *)
(* test of the mode and its send.                                            *)

\* The variables of alertAttacks and of the poll loop, which the menu leaves alone.
alertVars == <<config, defense, cur, loopVars, observers, procVars, earlier>>

\* Calls of on_first_message the model follows.
MaxCalls == 3

\* Non-empty texts the model lets the menu write.
MaxWrites == 3

\* OutputControl.set_quiet
set_quiet(oc) == [oc EXCEPT !.mode = "quiet"]

\* OutputControl.set_monitor
set_monitor(oc) == [oc EXCEPT !.mode = "monitor"]

\* OutputControl.should_send_to_telegram
should_send_to_telegram(oc) == oc.mode = "monitor"

\* A variant that answers by the mode, not by the flag.
on_first_message_WheneverQuiet(oc) ==
    IF oc.mode = "quiet"
    THEN [control |-> [oc EXCEPT !.first_message_received = TRUE, !.mode = "monitor"],
          returned |-> TRUE]
    ELSE [control |-> oc, returned |-> FALSE]

\* OutputControl.on_first_message: the object after the call and the value returned.
on_first_message(oc) ==
    IF ~oc.first_message_received
    THEN [control |-> [oc EXCEPT !.first_message_received = TRUE, !.mode = "monitor"],
          returned |-> TRUE]
    ELSE [control |-> oc, returned |-> FALSE]

\* /mute (bot.py) calls set_quiet.
SetQuiet ==
    /\ output' = [set_quiet(output) EXCEPT !.touched = TRUE]
    /\ UNCHANGED <<alertVars, pluginVars, tee, poller, launch>>

\* /monitor (bot.py) calls set_monitor.
SetMonitor ==
    /\ output' = [set_monitor(output) EXCEPT !.touched = TRUE]
    /\ UNCHANGED <<alertVars, pluginVars, tee, poller, launch>>

\* A plain message arrives: _handle_message calls on_first_message.
OnFirstMessage ==
    /\ output.calls < MaxCalls
    /\ LET r == on_first_message(output)
       IN  output' = [r.control EXCEPT
                         !.calls = @ + 1,
                         !.last = Some([call |-> output.calls + 1,
                                        returned |-> r.returned,
                                        before |-> output.mode,
                                        after |-> r.control.mode])]
    /\ UNCHANGED <<alertVars, pluginVars, tee, poller, launch>>

\* The texts print hands to write, as ScreenTexts gives them: "" and a line.
WrittenTexts == {<<0>>, <<1>>}

\* TeeStdout.write, step 3: telegram_buffer after the n-th text was written.
write(buffer, oc, n) == IF should_send_to_telegram(oc) THEN Append(buffer, n) ELSE buffer

\* TeeStdout.write (lines 51 to 64); a text is known by the number of its write.
Write ==
    /\ tee.flushing = None
    /\ tee.written < MaxWrites
    /\ \E text \in WrittenTexts :
        IF text = <<0>>
        THEN UNCHANGED <<tee, screen>>
        ELSE LET n == tee.written + 1
             IN  /\ screen' = [lines |-> add(screen.lines, text), chunks |-> None]
                 /\ tee' = [tee EXCEPT
                               !.telegram_buffer = write(@, output, n),
                               !.written = n,
                               !.quietWritten =
                                   IF output.mode = "quiet" THEN @ \cup {n} ELSE @]
    /\ UNCHANGED <<alertVars, bot, shared, setup, output, poller, launch>>

\* TeeStdout.flush, line 72: the test of the buffer and of the mode. When it
\* passes, the texts joined at line 73 are on their way to sendToIkaChef.
FlushTest ==
    /\ tee.flushing = None
    /\ LET passes == tee.telegram_buffer # << >> /\ should_send_to_telegram(output)
       IN  tee' = [tee EXCEPT
                      !.flushing = IF passes THEN Some(tee.telegram_buffer) ELSE None,
                      !.lastFlush = Some([found |-> tee.telegram_buffer,
                                          checked |-> output.mode,
                                          sent |-> None])]
    /\ UNCHANGED <<alertVars, pluginVars, output, poller, launch>>

\* What the send of lines 77 to 91 can come to: sendToIkaChef delivered the
\* text, returned without delivering it, or raised and the notice to the
\* notification bot was sent or failed too.
SendOutcomes == {"delivered", "not delivered", "raised, notice sent", "raised, notice failed"}

RECURSIVE Range(_)
Range(seq) == IF seq = << >> THEN {} ELSE {Head(seq)} \cup Range(Tail(seq))

\* TeeStdout.flush, lines 73 to 93: the send and the emptying of the buffer.
FlushSend ==
    /\ tee.flushing # None
    /\ \E outcome \in SendOutcomes :
        LET texts == tee.flushing[1]
        IN  tee' = [tee EXCEPT
                       !.telegram_buffer = << >>,
                       !.flushing = None,
                       !.sentOnce = @ \cup Range(texts),
                       !.sentTwice = @ \cup (Range(texts) \cap tee.sentOnce),
                       !.lastFlush = Some([tee.lastFlush[1] EXCEPT
                                              !.sent = Some([texts |-> texts,
                                                             mode |-> output.mode,
                                                             outcome |-> outcome])])]
    /\ UNCHANGED <<alertVars, pluginVars, output, poller, launch>>

InitOutput ==
    /\ LoopIdle
    /\ InPollLoop
    /\ PluginOff
    /\ MenuOff

NextOutput == SetQuiet \/ SetMonitor \/ OnFirstMessage \/ Write \/ FlushTest \/ FlushSend

SpecOutput == InitOutput /\ [][NextOutput]_vars

-----------------------------------------------------------------------------
(* Properties of OutputControl and TeeStdout (SpecOutput) *)

\* C31: OutputControl starts in quiet mode, and however set_quiet, set_monitor
\* and on_first_message are called, from whichever threads, on_first_message
\* returns True and switches the mode to monitor on its first call only: every
\* later call returns False and leaves the mode as it found it.
C31_FirstMessageOnlyOnce ==
    /\ (output.calls = 0 /\ ~output.touched) => output.mode = "quiet"
    /\ output.last # None =>
          LET l == output.last[1]
          IN  /\ l.returned = (l.call = 1)
              /\ l.call = 1 => l.after = "monitor"
              /\ l.call > 1 => l.after = l.before

\* A later call found the mode quiet again, returned False and left it quiet.
C31_Witness ==
    /\ output.last = Some([call |-> 2, returned |-> FALSE, before |-> "quiet", after |-> "quiet"])
    /\ output.mode = "quiet"

\* What the last flush handed to sendToIkaChef, << >> when it sent nothing.
LastSent == IF tee.lastFlush = None THEN None ELSE tee.lastFlush[1].sent

\* C38: TeeStdout sends nothing to Telegram while the output mode is quiet, it
\* never sends a text that was written while the mode was quiet, and a text
\* written in monitor mode is sent at most once.
C38_QuietSendsNothing ==
    /\ LastSent # None => LastSent[1].mode = "monitor"
    /\ tee.sentOnce \cap tee.quietWritten = {}
    /\ tee.sentTwice = {}

\* What holds of the sends: each one follows a test that found the mode
\* monitor, carries only texts written in monitor mode, and no text twice; a
\* flush that finds the mode quiet sends nothing and keeps the buffer.
C38_SendsFollowMonitorTest ==
    /\ LastSent # None => tee.lastFlush[1].checked = "monitor"
    /\ (tee.lastFlush # None /\ tee.lastFlush[1].checked = "quiet") =>
           /\ LastSent = None
           /\ tee.flushing = None
    /\ tee.sentOnce \cap tee.quietWritten = {}
    /\ tee.sentTwice = {}
    /\ Range(tee.telegram_buffer) \cap (tee.quietWritten \cup tee.sentOnce) = {}

\* A flush in quiet mode found a text pending and sent nothing.
C38_QuietFlushKeepsText ==
    /\ tee.lastFlush # None
    /\ tee.lastFlush[1].checked = "quiet"
    /\ tee.lastFlush[1].found # << >>
    /\ tee.lastFlush[1].sent = None
    /\ tee.telegram_buffer = tee.lastFlush[1].found

-----------------------------------------------------------------------------
(* plugins/telegram/poller.py: TelegramPoller                                *)
(* start and stop are called from the main thread; every thread start made   *)
(* runs _poll_loop. A thread is at the test of its while loop ("loop"),      *)
(* inside the long poll of lines 49 to 56 ("getUpdates"), or has returned.   *)

\* Updates Telegram receives for the bot.
MaxUpdates == 3

\* Threads start() creates.
MaxThreads == 2

\* An update as getUpdates returns it: one without a message, a message from
\* the configured chat, a message from another chat.
UpdateKinds == {"callback", "mine", "stranger"}

Update(id, kind) ==
    IF kind = "callback" THEN [update_id |-> id]
    ELSE [update_id |-> id,
          message |-> [chat |-> [id |-> IF kind = "mine" THEN 7 ELSE 8]]]

\* Lines 63 to 65: the update has a message whose chat id is self.chat_id.
Accepts(p, update) ==
    /\ "message" \in DOMAIN update
    /\ LET chat == Get(update.message, "chat", << >>)
       IN  "id" \in DOMAIN chat /\ chat.id = p.chat_id

\* Telegram's answer to getUpdates: the updates from `offset` on, oldest first.
getUpdates(server, offset) == SelectSeq(server, LAMBDA u : u.update_id >= offset)

UpdateIds(response) == {response[i].update_id : i \in 1..Len(response)}

\* A variant that moves last_update_id only past the updates whose handling
\* did not raise.
RECURSIVE ProcessUpdates_AdvanceAfterHandler(_, _, _, _)
ProcessUpdates_AdvanceAfterHandler(p, t, response, raises) ==
    IF response = << >> THEN p
    ELSE LET update == Head(response)
             id == update.update_id
             called == IF Accepts(p, update)
                       THEN [p EXCEPT !.handledBy = @ \cup {<<id, t>>},
                                      !.again = @ \cup ({<<id, t>>} \cap p.handledBy),
                                      !.raisedOn = IF id \in raises THEN @ \cup {id} ELSE @]
                       ELSE p
             q == IF Accepts(p, update) /\ id \in raises
                  THEN called
                  ELSE [called EXCEPT !.last_update_id = id]
         IN  ProcessUpdates_AdvanceAfterHandler(q, t, Tail(response), raises)

\* The for loop of lines 59 to 70, run by thread t; `raises` are the updates
\* on which the handler raises. handledBy, again and raisedOn record the calls
\* of the handler.
RECURSIVE ProcessUpdates(_, _, _, _)
ProcessUpdates(p, t, response, raises) ==
    IF response = << >> THEN p
    ELSE LET update == Head(response)
             id == update.update_id
             q == [p EXCEPT !.last_update_id = id]
             called == IF Accepts(q, update)
                       THEN [q EXCEPT !.handledBy = @ \cup {<<id, t>>},
                                      !.again = @ \cup ({<<id, t>>} \cap p.handledBy),
                                      !.raisedOn = IF id \in raises THEN @ \cup {id} ELSE @]
                       ELSE q
         IN  ProcessUpdates(called, t, Tail(response), raises)

\* Thread t's request of lines 49 to 56 ends: with an exception (line 72, then
\* the sleep) or with Telegram's answer, which the for loop then processes.
Return(p, t, ok, raises) ==
    IF ~ok THEN [p EXCEPT !.threads[t].at = "loop"]
    ELSE [ProcessUpdates(p, t, getUpdates(p.server, p.threads[t].offset), raises)
             EXCEPT !.threads[t].at = "loop"]

\* The handler can raise on the updates it is called for.
CanRaise(p, t) ==
    SUBSET {u \in UpdateIds(getUpdates(p.server, p.threads[t].offset)) : Accepts(p, p.server[u])}

\* Somebody sends the bot something.
NewUpdate ==
    /\ Len(poller.server) < MaxUpdates
    /\ \E kind \in UpdateKinds :
        poller' = [poller EXCEPT !.server = Append(@, Update(Len(@) + 1, kind))]
    /\ UNCHANGED <<alertVars, pluginVars, output, tee, launch>>

\* Line 46, then the request of lines 49 to 55 is made.
PollerFetch ==
    /\ \E t \in 1..Len(poller.threads) :
        /\ poller.threads[t].at = "loop"
        /\ poller' = IF poller.running
                     THEN [poller EXCEPT !.threads[t] =
                              [at |-> "getUpdates", offset |-> poller.last_update_id + 1]]
                     ELSE [poller EXCEPT !.threads[t].at = "ended"]
    /\ UNCHANGED <<alertVars, pluginVars, output, tee, launch>>

\* Lines 56 to 74.
PollerReturn ==
    /\ \E t \in 1..Len(poller.threads) :
        /\ poller.threads[t].at = "getUpdates"
        /\ \E ok \in BOOLEAN : \E raises \in CanRaise(poller, t) :
            poller' = Return(poller, t, ok, raises)
    /\ UNCHANGED <<alertVars, pluginVars, output, tee, launch>>

\* TelegramPoller.start (lines 29 to 36).
Start ==
    /\ Len(poller.threads) < MaxThreads
    /\ poller' = IF poller.running THEN poller
                 ELSE [poller EXCEPT
                          !.running = TRUE,
                          !.thread = Some(Len(poller.threads) + 1),
                          !.threads = Append(@, [at |-> "loop", offset |-> 0])]
    /\ UNCHANGED <<alertVars, pluginVars, output, tee, launch>>

\* TelegramPoller.stop (lines 38 to 42), called from the main thread. Within
\* the five seconds of the join a thread at the test of its loop sees
\* running False and returns; a thread inside the long poll either gets its
\* answer in time, processes it and returns, or is still inside the request
\* when the join gives up.
Stop ==
    /\ LET stopped == [poller EXCEPT !.running = FALSE]
       IN  IF poller.thread = None THEN poller' = stopped
           ELSE LET t == poller.thread[1]
                IN  IF poller.threads[t].at = "ended" THEN poller' = stopped
                    ELSE IF poller.threads[t].at = "loop"
                    THEN poller' = [stopped EXCEPT !.threads[t].at = "ended"]
                    ELSE \/ poller' = stopped
                         \/ \E ok \in BOOLEAN : \E raises \in CanRaise(poller, t) :
                              poller' = [Return(stopped, t, ok, raises)
                                            EXCEPT !.threads[t].at = "ended"]
    /\ UNCHANGED <<alertVars, pluginVars, output, tee, launch>>

\* One TelegramPoller, constructed and not yet started.
InitPoller ==
    /\ LoopIdle
    /\ InPollLoop
    /\ PluginOff
    /\ MenuOff

NextPoller == NewUpdate \/ PollerFetch \/ PollerReturn \/ Start \/ Stop

SpecPoller == InitPoller /\ [][NextPoller]_vars

\* The poller as telegram_bot.main uses it: start() was called once, and
\* stop() ends it.
InitPollLoop ==
    /\ LoopIdle
    /\ InPollLoop
    /\ PluginOff
    /\ output = [mode |-> "quiet", first_message_received |-> FALSE, touched |-> FALSE,
                 calls |-> 0, last |-> None]
    /\ tee = [telegram_buffer |-> << >>, flushing |-> None, written |-> 0,
              quietWritten |-> {}, sentOnce |-> {}, sentTwice |-> {}, lastFlush |-> None]
    /\ launch = [at |-> "off", configured |-> FALSE, raised |-> "", credentials |-> None]
    /\ poller = [chat_id |-> 7, last_update_id |-> 0, running |-> TRUE, thread |-> Some(1),
                 threads |-> <<[at |-> "loop", offset |-> 0]>>, server |-> << >>,
                 handledBy |-> {}, again |-> {}, raisedOn |-> {}]

NextPollLoop == NewUpdate \/ PollerFetch \/ PollerReturn \/ Stop

SpecPollLoop == InitPollLoop /\ [][NextPollLoop]_vars

-----------------------------------------------------------------------------
(* Properties of TelegramPoller (SpecPollLoop, SpecPoller) *)

\* The threads that called the handler for update id.
HandlersOf(id) == {t \in 1..Len(poller.threads) : <<id, t>> \in poller.handledBy}

\* C32: whatever getUpdates returns, with increasing update_ids, the poller
\* calls the handler only for updates that hold a message whose chat id is the
\* configured chat_id, at most once per update; a handler that raises neither
\* ends the poll loop nor has its update delivered again.
C32_HandlerOncePerOwnUpdate ==
    /\ \A call \in poller.handledBy : Accepts(poller, poller.server[call[1]])
    /\ \A id \in 1..Len(poller.server) : Cardinality(HandlersOf(id)) <= 1
    /\ poller.again = {}
    /\ \A id \in poller.raisedOn : poller.last_update_id >= id
    /\ \A t \in 1..Len(poller.threads) :
          /\ poller.threads[t].at = "ended" => ~poller.running
          /\ poller.threads[t].at = "getUpdates" =>
                \A id \in poller.raisedOn : poller.threads[t].offset > id

\* The handler raised on the first update; the loop went on, passed over a
\* stranger's message and handled the third update, and polls from the fourth.
C32_Witness ==
    /\ Len(poller.server) = 3
    /\ ~Accepts(poller, poller.server[2])
    /\ poller.raisedOn = {1}
    /\ poller.handledBy = {<<1, 1>>, <<3, 1>>}
    /\ poller.running
    /\ poller.threads[1] = [at |-> "getUpdates", offset |-> 4]

\* The threads inside _poll_loop that have not returned.
Polling == {t \in 1..Len(poller.threads) : poller.threads[t].at # "ended"}

\* C37: however start() and stop() are called, at most one _poll_loop thread
\* is fetching and handling updates at any time, and no update is handled by
\* two threads.
C37_OneThreadPolls ==
    /\ Cardinality(Polling) <= 1
    /\ \A id \in 1..Len(poller.server) : Cardinality(HandlersOf(id)) <= 1

\* Two threads called the handler for the same update.
C37_HandledByTwoThreads ==
    \E id \in 1..Len(poller.server) : HandlersOf(id) = {1, 2}

\* What start() and stop() do keep: with one thread ever started no update is
\* handled twice, and while running is set the thread start() made last has
\* not returned.
C37_OneThreadUnlessJoinGaveUp ==
    /\ Len(poller.threads) = 1 => \A id \in 1..Len(poller.server) : Cardinality(HandlersOf(id)) <= 1
    /\ (poller.running /\ poller.thread # None) => poller.threads[poller.thread[1]].at # "ended"

-----------------------------------------------------------------------------
(* telegram_bot.py: main, from the configuration test to TelegramBot(...)    *)

\* isIkaChefConfigured (setup.py, lines 172 to 204) on the shared session data.
isIkaChefConfigured(sh) ==
    /\ "ikaChef" \in DOMAIN sh
    /\ {"botToken", "chatId"} \subseteq DOMAIN sh["ikaChef"]
    /\ sh["ikaChef"]["botToken"] # ""
    /\ sh["ikaChef"]["chatId"] # ""

\* int(chat_id) of poller.py, line 23; << >> where int raises ValueError.
IntOf(text) ==
    IF \E n \in 0..9 : Digits[n + 1] = text
    THEN Some(CHOOSE n \in 0..9 : Digits[n + 1] = text)
    ELSE None

\* TelegramBot.__init__ (bot.py, lines 33 to 54) with TelegramPoller.__init__:
\* the exception it ends with, "" for none, and the poller's credentials.
TelegramBot_init(sh) ==
    IF "telegramMenu" \notin DOMAIN sh
    THEN [raised |-> "KeyError", credentials |-> None]
    ELSE LET telegram_menu_data == sh["telegramMenu"]
         IN  IF ~({"botToken", "chatId"} \subseteq DOMAIN telegram_menu_data)
             THEN [raised |-> "KeyError", credentials |-> None]
             ELSE IF IntOf(telegram_menu_data["chatId"]) = None
             THEN [raised |-> "ValueError", credentials |-> None]
             ELSE [raised |-> "",
                   credentials |-> Some([bot_token |-> telegram_menu_data["botToken"],
                                         chat_id |-> IntOf(telegram_menu_data["chatId"])[1]])]

\* What a call of setupIkaChef on the shared data sh can come to.
SetupOutcomes(sh) ==
    {[shared |-> sh, result |-> FALSE, ended |-> ended] : ended \in EarlyReturns}
    \cup {SaveAndConfirm(sh, bot_token, chat_id, save_ok, swap_ok, send_ok, restore_ok) :
             bot_token \in BotTokens, chat_id \in ChatIds,
             save_ok \in BOOLEAN, swap_ok \in BOOLEAN, send_ok \in BOOLEAN,
             restore_ok \in BOOLEAN}

\* Lines 122 to 131: the shared components are made and TelegramBot is constructed.
Constructed(sh) ==
    LET b == TelegramBot_init(sh)
    IN  [at |-> IF b.raised = "" THEN "constructed" ELSE "raised",
         configured |-> isIkaChefConfigured(sh),
         raised |-> b.raised,
         credentials |-> b.credentials]

\* main (lines 92 to 131) for a logged-in session without --delete.
LaunchTelegramMode ==
    /\ launch.at = "off"
    /\ \E force_reconfigure \in BOOLEAN, response \in {"y", "n"} :
        LET is_configured == isIkaChefConfigured(shared)
            returned == [at |-> "returned 1", configured |-> is_configured,
                         raised |-> "", credentials |-> None]
        IN  IF (force_reconfigure /\ is_configured) \/ (~is_configured /\ response = "y")
            THEN \E r \in SetupOutcomes(shared) :
                    /\ setup' = [pc |-> "returned", before |-> TelegramOf(shared),
                                 result |-> Some(r.result), ended |-> r.ended]
                    /\ shared' = r.shared
                    /\ launch' = IF r.result THEN Constructed(r.shared) ELSE returned
            ELSE IF ~is_configured
            THEN /\ launch' = returned
                 /\ UNCHANGED <<shared, setup>>
            ELSE /\ launch' = Constructed(shared)
                 /\ UNCHANGED <<shared, setup>>
    /\ UNCHANGED <<alertVars, screen, bot, output, tee, poller>>

\* setupIkaChef run on its own (ikachef.py --chef), then the Telegram mode.
NextLaunch == SetupIkaChef \/ LaunchTelegramMode

SpecLaunch == InitSetup /\ [][NextLaunch]_vars

-----------------------------------------------------------------------------
(* Properties of the launch of the Telegram mode (SpecLaunch) *)

\* C39: whenever isIkaChefConfigured holds of the session, the launch of the
\* Telegram mode constructs TelegramBot without an exception, and its poller
\* has the bot token and the chat id stored under the shared "ikaChef" entry.
C39_ConfiguredLaunchConstructs ==
    (launch.at \in {"constructed", "raised"} /\ launch.configured) =>
        /\ launch.raised = ""
        /\ launch.credentials = Some([bot_token |-> shared["ikaChef"]["botToken"],
                                      chat_id |-> IntOf(shared["ikaChef"]["chatId"])[1]])

\* What the launch keeps: TelegramBot is constructed only when
\* isIkaChefConfigured holds, on what setupIkaChef stored, and a session that
\* is not configured and is not set up ends the launch with 1.
C39_ConstructsOnlyWhenConfigured ==
    /\ launch.at \in {"constructed", "raised"} =>
          /\ launch.configured
          /\ isIkaChefConfigured(shared)
    /\ launch.at = "returned 1" => launch.credentials = None

=============================================================================
